---- MODULE Spec2Model ----
(***************************************************************************)
(* A model of datagrid_gtk3/ui/grid.py: the virtual tree model             *)
(* (DataGridModel), the tree and icon views and the grid controller, over  *)
(* a small data source.                                                    *)
(*                                                                         *)
(* Encoding of Python values:                                              *)
(*   None              -1 (ids are >= 1, indices and counts >= 0)          *)
(*   a path tuple      a sequence of 0-based child indices; the unset      *)
(*                     path (None) is NonePath                             *)
(*   True / False      1 / 0 where stored in row data (True == 1 in        *)
(*                     Python), TRUE / FALSE where the code needs a bool   *)
(*   a dict            a function whose domain is the set of its keys      *)
(*   a Node            a record; nodes live in the arena `nodes` and are   *)
(*                     referred to by their handle (index in the arena)    *)
(***************************************************************************)
EXTENDS Integers, Sequences, FiniteSets, TLC

\* ---------------------------------------------------------------- bounds
MaxRecs == 2
PageSize == 1
MaxPage == 2
MaxNodes == 5
MaxSteps == 4

\* ------------------------------------------------------- python encoding
None == -1
NonePath == << None >>

Get(d, k, default) == IF k \in DOMAIN d THEN d[k] ELSE default
Put(d, k, v) == [x \in (DOMAIN d) \cup {k} |-> IF x = k THEN v ELSE d[x]]
Del(d, k) == [x \in (DOMAIN d) \ {k} |-> d[x]]
EmptyDict == [x \in {} |-> None]
\* dict.update
Update(d, u) == [x \in (DOMAIN d) \cup (DOMAIN u) |-> IF x \in DOMAIN u THEN u[x] ELSE d[x]]
Last(seq) == seq[Len(seq)]
Min(a, b) == IF a < b THEN a ELSE b

\* bool(value) of a stored cell value
Bool(value) == value # 0 /\ value # None
\* the value Python stores for a bool (True == 1, False == 0)
PyBool(b) == IF b THEN 1 ELSE 0
\* An id value is an int i, encoded i; the str of its digits, encoded
\* StrId(i); or a str that is not a number, encoded TextId(i).
StrId(i) == 100 + i
TextId(i) == 200 + i
\* int(value) of an id read back from the model raises ValueError on a str
\* that is not a number, and otherwise gives the int.
PyIntRaises(value) == value >= TextId(0)
PyInt(value) == IF value >= StrId(0) THEN value - StrId(0) ELSE value

\* ------------------------------------------------------------- variables
VARIABLES
    data_source,        \* the bound data source (its records and its column roles)
    active_params,      \* DataGridModel.active_params
    rows,               \* DataGridModel.rows: handles of the root rows, in order
    nodes,              \* the arena of resident Node objects
    row_id_mapper,      \* DataGridModel.row_id_mapper: id -> handle
    id_column_idx,      \* DataGridModel.id_column_idx
    parent_column_idx,  \* DataGridModel.parent_column_idx
    flat_column_idx,    \* DataGridModel.flat_column_idx
    total_recs,         \* DataGridModel.total_recs
    image_max_size,     \* DataGridModel.image_max_size
    image_draw_border,  \* DataGridModel.image_draw_border
    visible_range,      \* DataGridModel.visible_range: << >> (None) or << start, end >>
    view,               \* DataGridController.view: "tree_view" or "icon_view"
    has_checkboxes,     \* has_checkboxes of both views
    check_btn_toggle_all, \* DataGridView.check_btn_toggle_all: << >> (None) or << the button >>
    expanded_ids,       \* DataGridView._expanded_ids
    expandable_ids,     \* DataGridView._expandable_ids
    all_expanded,       \* DataGridView._all_expanded
    block_all_expanded, \* DataGridView._block_all_expanded
    gtk_expanded,       \* the paths of the rows the tree view widget shows expanded
    expand_all_btn,     \* visibility of container.expand_all_btn
    collapse_all_btn,   \* visibility of container.collapse_all_btn
    display_columns,    \* DataGridModel.display_columns: the names of the columns to show
    tree_columns,       \* the names of the data columns DataGridView._setup_columns built
    active_sort_column, \* DataGridView.active_sort_column: << >> (None) or << the name >>
    active_sort_column_order, \* DataGridView.active_sort_column_order
    extra_filter_widgets, \* DataGridController.extra_filter_widgets: attr -> combo
    container,          \* the other widgets of the container: search entry, filters
                        \* area, date column combo and the visibility of the date controls
    date_start,         \* DataGridController.date_start: its text and sensitivity
    date_end,           \* DataGridController.date_end: its text and sensitivity
    drop_shadows_cache, \* imageutils._drop_shadows_cache: key -> shadow
    blurs,              \* the blur filter applications add_drop_shadow made, in order
    best_width,         \* a call of DataGridView._get_best_column_width and its result
    iter,               \* the generator of a DataGridModel.iter_rows call being consumed
    _invisible_images,  \* DataGridModel._invisible_images: size -> placeholder
    _fallback_images,   \* DataGridModel._fallback_images: (draw_border, size) -> fallback
    image_calls,        \* the image transformer and scale_simple calls the model made
    calls,              \* the data source calls made by the last handler, in order
    signals,            \* the toolkit notifications emitted by the last handler, in order
    last,               \* the last handler: its name, arguments, return value, exception,
                        \* and the query parameters it started from
    steps               \* the number of handlers run since construction

vars == << data_source, active_params, rows, nodes, row_id_mapper, id_column_idx,
           parent_column_idx, flat_column_idx, total_recs, image_max_size, image_draw_border,
           visible_range, view, has_checkboxes, check_btn_toggle_all, expanded_ids,
           expandable_ids, all_expanded, block_all_expanded, gtk_expanded,
           expand_all_btn, collapse_all_btn, display_columns, tree_columns,
           active_sort_column, active_sort_column_order,
           extra_filter_widgets, container, date_start, date_end,
           drop_shadows_cache, blurs, best_width, iter, _invisible_images,
           _fallback_images, image_calls, calls, signals, last, steps >>

\* The image caches of the model and the calls that fill them.
image_vars == << _invisible_images, _fallback_images, image_calls >>

\* The state of the controller, its model and its widgets.
grid_vars == << data_source, active_params, rows, nodes, row_id_mapper, id_column_idx,
                parent_column_idx, flat_column_idx, total_recs, image_max_size,
                image_draw_border, visible_range, view, has_checkboxes,
                check_btn_toggle_all, expanded_ids, expandable_ids, all_expanded,
                block_all_expanded, gtk_expanded, expand_all_btn, collapse_all_btn,
                display_columns, tree_columns, active_sort_column,
                active_sort_column_order, extra_filter_widgets, container,
                date_start, date_end, calls, signals >>

\* ------------------------------------------------------------ data source
\* Column layout of the modelled data source's rows.
SelectedCol == 0
IdCol == 1
ParentCol == 2
NameCol == 3
NCols == 4

columns == [c \in 0..(NCols - 1) |->
    CASE c = SelectedCol -> [name |-> "__selected", transform |-> "boolean", visible |-> TRUE]
      [] c = IdCol       -> [name |-> "__id", transform |-> "None", visible |-> TRUE]
      [] c = ParentCol   -> [name |-> "__parent", transform |-> "None", visible |-> TRUE]
      [] OTHER           -> [name |-> "name", transform |-> "string", visible |-> TRUE]]

\* The value of the `name` column of the record with this id.
NameOf(id) == id % 2

\* The columns of the data source: the layout above, then its other columns.
ColumnsOf(ds) == [c \in 0..(NCols + Len(ds.extra) - 1) |->
    IF c < NCols THEN columns[c] ELSE ds.extra[c - NCols + 1]]

\* The names the data source gives its id, parent and flat columns.
ID_COLUMN == columns[IdCol].name
PARENT_ID_COLUMN == columns[ParentCol].name
FLAT_COLUMN == columns[NameCol].name

\* name.startswith('__') and transform.startswith('timestamp'), over the
\* names and transforms of the modelled columns.
ReservedNames == {"__selected", "__id", "__parent", "__hidden"}
IsReserved(name) == name \in ReservedNames
TimestampTransforms == {"timestamp", "timestamp_ms"}
IsTimestamp(transform) == transform \in TimestampTransforms

\* The type of the ids of the data source: int unless it says otherwise.
IdTypeOf(ds) == IF "id_type" \in DOMAIN ds THEN ds.id_type ELSE "int"

\* The value of the id column of the record with this position.
IdValue(ds, id) ==
    CASE IdTypeOf(ds) = "int" -> id
      [] IdTypeOf(ds) = "digits" -> StrId(id)
      [] OTHER -> TextId(id)

RowData(ds, id) == [c \in 0..(NCols - 1) |->
    CASE c = SelectedCol -> ds.selected[id]
      [] c = IdCol       -> IdValue(ds, id)
      [] c = ParentCol   -> ds.parent[id]
      [] OTHER           -> NameOf(id)]

Node(data, children_len) ==
    [data |-> data, path |-> NonePath, children |-> << >>, children_len |-> children_len]

\* Whether the record satisfies every clause of params['where'].
Matches(ds, params, id) ==
    LET where == Get(params, "where", EmptyDict)
    IN \A k \in DOMAIN where :
          CASE k = "name" -> where[k].param = NameOf(id)
            [] OTHER -> TRUE

Hierarchical(ds, params) ==
    ds.parent_column_idx # None /\ ~ Get(params, "flat", FALSE)

\* The ids a query selects, before pagination, in data source order.
QueryIds(ds, params) ==
    LET all == [i \in 1..ds.n |-> i]
        Sel(i) == /\ Matches(ds, params, i)
                  /\ Hierarchical(ds, params) =>
                        ds.parent[i] = Get(params, "parent_id", None)
    IN SelectSeq(all, Sel)

ChildrenLen(ds, params, id) ==
    IF Hierarchical(ds, params)
    THEN Cardinality({i \in 1..ds.n : ds.parent[i] = id /\ Matches(ds, params, i)})
    ELSE 0

\* data_source.load(params): the rows of one page (non-hierarchical) or of one
\* level (hierarchical), and the count of the whole result.
load(ds, params) ==
    LET ids == QueryIds(ds, params)
        page == Get(params, "page", 0)
        first == page * PageSize + 1
        paged == IF Hierarchical(ds, params) THEN ids
                 ELSE SubSeq(ids, first, Min(first + PageSize - 1, Len(ids)))
    IN [rows |-> [i \in 1..Len(paged) |->
                    Node(RowData(ds, paged[i]), ChildrenLen(ds, params, paged[i]))],
        total_recs |-> Len(ids)]

get_all_record_ids(ds, params) == QueryIds(ds, Put(params, "flat", TRUE))

is_children_loaded(node) == Len(node.children) = node.children_len

\* ------------------------------------------------------------- the state
\* The program state as one record, so that a handler is a function from
\* state to state and handlers compose as the code's calls do.
Cur == [data_source |-> data_source, active_params |-> active_params, rows |-> rows,
        nodes |-> nodes, row_id_mapper |-> row_id_mapper,
        id_column_idx |-> id_column_idx, parent_column_idx |-> parent_column_idx,
        flat_column_idx |-> flat_column_idx, total_recs |-> total_recs,
        image_max_size |-> image_max_size, image_draw_border |-> image_draw_border,
        visible_range |-> visible_range, view |-> view,
        has_checkboxes |-> has_checkboxes,
        check_btn_toggle_all |-> check_btn_toggle_all,
        expanded_ids |-> expanded_ids, expandable_ids |-> expandable_ids,
        all_expanded |-> all_expanded, block_all_expanded |-> block_all_expanded,
        gtk_expanded |-> gtk_expanded,
        expand_all_btn |-> expand_all_btn, collapse_all_btn |-> collapse_all_btn,
        display_columns |-> display_columns, tree_columns |-> tree_columns,
        active_sort_column |-> active_sort_column,
        active_sort_column_order |-> active_sort_column_order,
        extra_filter_widgets |-> extra_filter_widgets, container |-> container,
        date_start |-> date_start, date_end |-> date_end,
        calls |-> << >>, signals |-> << >>, ret |-> "None", raised |-> "none"]

Call(op, params, ids) == [op |-> op, params |-> params, ids |-> ids]
Signal(name, arg) == [name |-> name, arg |-> arg]
Raise(s, exc) == [s EXCEPT !.raised = exc]

\* ------------------------------------------------------------ DataGridModel
\* DataGridModel.columns as a sequence, in column order.
ColumnSeq(ds) == [i \in 1..(NCols + Len(ds.extra)) |-> ColumnsOf(ds)[i - 1]]

\* DataGridModel.__init__: the columns a timestamp transform formats.
datetime_columns(ds) ==
    SelectSeq(ColumnSeq(ds),
              LAMBDA column : column.transform # "None" /\ IsTimestamp(column.transform))

\* DataGridModel.__init__: the names of the columns to display at first.
InitialDisplayColumns_Visible(ds) ==
    {ColumnSeq(ds)[i].name : i \in {j \in 1..Len(ColumnSeq(ds)) : ColumnSeq(ds)[j].visible}}

InitialDisplayColumns(ds) ==
    {ColumnSeq(ds)[i].name :
        i \in {j \in 1..Len(ColumnSeq(ds)) :
                  ColumnSeq(ds)[j].visible /\ ~ IsReserved(ColumnSeq(ds)[j].name)}}

\* The handle of the node a path leads to by child position, None if the path
\* leaves the hierarchy.
RECURSIVE NodeAt(_, _, _)
NodeAt(s, children, path) ==
    IF path = << >> \/ path[1] < 0 \/ path[1] >= Len(children) THEN None
    ELSE LET h == children[path[1] + 1]
         IN IF Len(path) = 1 THEN h ELSE NodeAt(s, s.nodes[h].children, Tail(path))

\* The path of a parent row: () for the root collection (self.rows.path).
PathOf(s, parent_node) == IF parent_node = None THEN << >> ELSE s.nodes[parent_node].path

RECURSIVE add_rows(_, _)
RECURSIVE AppendRows(_, _, _, _, _, _)

\* `x = value; body`: the value is computed once and named in what follows.
Bind(value, F(_)) == CHOOSE y \in {F(x) : x \in {value}} : TRUE

_ensure_children_is_loaded(s, row) ==
    IF is_children_loaded(s.nodes[row]) THEN s ELSE add_rows(s, row)

\* Returns the state after the lookup (children may have been loaded) and the
\* handle of the row; IndexError when the path leaves the hierarchy.
_get_row_by_path_Deep(s, path) ==
    Bind(NodeAt(s, s.rows, path), LAMBDA row :
        IF row = None THEN [s |-> Raise(s, "IndexError"), row |-> None]
        ELSE [s |-> [(IF Len(path) = 1 THEN s ELSE _ensure_children_is_loaded(s, row))
                        EXCEPT !.ret = s.ret],
              row |-> row])

_get_row_by_path(s, path) ==
    Bind(NodeAt(s, s.rows, path), LAMBDA row :
        IF row = None THEN [s |-> Raise(s, "IndexError"), row |-> None]
        ELSE [s |-> [_ensure_children_is_loaded(s, row) EXCEPT !.ret = s.ret],
              row |-> row])

\* Gtk.TreeModel.get_iter over on_get_iter: the iter is the path; an invalid
\* path is a ValueError.
get_iter(s, path) ==
    Bind(_get_row_by_path(s, path), LAMBDA r :
        IF r.s.raised = "IndexError" THEN Raise(s, "ValueError") ELSE r.s)

\* The parameters of the load of refresh: active_params without page and
\* parent_id; the variant deletes page only.
RefreshParams_PageOnly(params) == Del(params, "page")

RefreshParams(params) == Del(Del(params, "page"), "parent_id")

\* The roots of refresh: with an id column each is given its path.
RefreshRows(loaded_rows, idx) ==
    [i \in 1..Len(loaded_rows) |->
        IF idx # None THEN [loaded_rows[i] EXCEPT !.path = << i - 1 >>]
        ELSE loaded_rows[i]]

\* self.row_id_mapper.clear(), with the variant that keeps the entries.
ClearedMapper_Keep(mapper) == mapper

ClearedMapper(mapper) == EmptyDict

\* The row-id index of refresh: with an id column, each root's id is mapped
\* to the root (the last one, should an id repeat).
RefreshMapper(mapper, loaded_rows, idx) ==
    LET n == Len(loaded_rows)
        keys == IF idx # None THEN {loaded_rows[i].data[idx] : i \in 1..n} ELSE {}
    IN Update(mapper,
          [k \in keys |->
              CHOOSE i \in 1..n : /\ loaded_rows[i].data[idx] = k
                                  /\ \A j \in 1..n : loaded_rows[j].data[idx] = k => j <= i])

refresh(s) ==
    Bind(RefreshParams(s.active_params), LAMBDA params :
    Bind(load(s.data_source, params), LAMBDA loaded :
        [s EXCEPT !.active_params = params,
                  !.row_id_mapper = RefreshMapper(ClearedMapper(@), loaded.rows,
                                                  s.data_source.id_column_idx),
                  !.rows = [i \in 1..Len(loaded.rows) |-> i],
                  !.nodes = RefreshRows(loaded.rows, s.data_source.id_column_idx),
                  !.id_column_idx = s.data_source.id_column_idx,
                  !.parent_column_idx = s.data_source.parent_column_idx,
                  !.flat_column_idx = s.data_source.flat_column_idx,
                  !.total_recs = loaded.total_recs,
                  !.data_source.total_recs = loaded.total_recs,
                  !.calls = Append(@, Call("load", params, << >>)),
                  !.signals = Append(@, Signal("data-loaded", loaded.total_recs))]))

\* Whether add_rows notifies the view of the row it appended; the variant
\* notifies for root rows only.
EmitsRowInserted_RootOnly(is_tree, parent_node) == ~ is_tree /\ parent_node = None

EmitsRowInserted(is_tree, parent_node) == ~ is_tree

\* The row-id index after add_rows registered the row with handle h.
Register(mapper, id, h) == Put(mapper, id, h)

\* One turn of the loop of add_rows: the row is given its path, registered in
\* the row-id index and appended to its parent's children.
AppendRow(s, row, parent_node) ==
    Bind(Len(s.nodes) + 1, LAMBDA h :
    Bind([s EXCEPT !.nodes = Append(@, row),
                   !.row_id_mapper = Register(@, row.data[s.id_column_idx], h)],
         LAMBDA s1 :
            IF parent_node = None
            THEN [s1 EXCEPT !.rows = Append(@, h)]
            ELSE [s1 EXCEPT !.nodes[parent_node].children = Append(@, h)]))

\* self.row_inserted(path, self.get_iter(path))
row_inserted(s, path) ==
    Bind(get_iter(s, path), LAMBDA g :
        IF g.raised # "none" THEN g
        ELSE [g EXCEPT !.signals = Append(@, Signal("row-inserted", path))])

\* The loop of add_rows over the loaded rows, from the i-th on.
AppendRows(s, loaded, i, parent_node, path_offset, is_tree) ==
    IF i > Len(loaded) \/ s.raised # "none" THEN s
    ELSE Bind(PathOf(s, parent_node) \o << path_offset + (i - 1) >>, LAMBDA path :
         Bind(AppendRow(s, [loaded[i] EXCEPT !.path = path], parent_node), LAMBDA s2 :
            AppendRows(IF EmitsRowInserted(is_tree, parent_node)
                       THEN row_inserted(s2, path) ELSE s2,
                       loaded, i + 1, parent_node, path_offset, is_tree)))

\* is_tree of add_rows: a parent column exists and flat is off; the variant
\* never takes the data for hierarchical.
IsTree_Never(s) == FALSE

IsTree(s) == s.parent_column_idx # None /\ ~ Get(s.active_params, "flat", FALSE)

\* The parameters of the load of add_rows.
AddRowsParams(params, parent_node, parent_id) ==
    Put(IF parent_node = None
        THEN Put(params, "page", Get(params, "page", 0) + 1)
        ELSE params,
        "parent_id", parent_id)

\* path_offset of add_rows.
PathOffset(s, parent_node) ==
    IF parent_node = None THEN Last(s.nodes[Last(s.rows)].path) + 1 ELSE 0

\* add_rows from the load on, without the return on an empty load.
LoadAndAppend_NoEmptyReturn(s, parent_node, params) ==
    Bind(load(s.data_source, params), LAMBDA loaded :
    Bind(AppendRows([s EXCEPT !.active_params = params,
                              !.data_source.total_recs = loaded.total_recs,
                              !.calls = Append(@, Call("load", params, << >>))],
                    loaded.rows, 1, parent_node, PathOffset(s, parent_node), IsTree(s)),
         LAMBDA s2 : IF s2.raised # "none" THEN s2 ELSE [s2 EXCEPT !.ret = "True"]))

\* add_rows from the load on.
LoadAndAppend(s, parent_node, params) ==
    Bind(load(s.data_source, params), LAMBDA loaded :
    Bind([s EXCEPT !.active_params = params,
                   !.data_source.total_recs = loaded.total_recs,
                   !.calls = Append(@, Call("load", params, << >>))],
         LAMBDA s1 :
            IF Len(loaded.rows) = 0 THEN [s1 EXCEPT !.ret = "False"]
            ELSE Bind(AppendRows(s1, loaded.rows, 1, parent_node,
                                 PathOffset(s, parent_node), IsTree(s)),
                      LAMBDA s2 : IF s2.raised # "none" THEN s2
                                  ELSE [s2 EXCEPT !.ret = "True"])))

add_rows(s, parent_node) ==
    IF IsTree(s) /\ parent_node = None THEN [s EXCEPT !.ret = "False"]
    ELSE IF parent_node = None /\ s.rows = << >> THEN Raise(s, "IndexError")
    ELSE IF parent_node = None /\ s.nodes[Last(s.rows)].path = NonePath
         THEN Raise(s, "TypeError")
    ELSE IF parent_node # None /\ s.id_column_idx = None THEN Raise(s, "TypeError")
    ELSE LoadAndAppend(s, parent_node,
            AddRowsParams(s.active_params, parent_node,
                          IF parent_node = None THEN None
                          ELSE s.nodes[parent_node].data[s.id_column_idx]))

\* data_source.update(param, ids): write the columns of param to the records.
update(ds, param, ids) ==
    IF "__selected" \in DOMAIN param
    THEN [ds EXCEPT !.selected = [i \in 1..ds.n |->
                IF \E k \in 1..Len(ids) : ids[k] = i THEN param["__selected"] ELSE @[i]]]
    ELSE ds

update_data_source(s, column, value, ids) ==
    LET param == Put(EmptyDict, column, value)
    IN [s EXCEPT !.data_source = update(@, param, ids),
                 !.calls = Append(@, Call("update", param, ids))]

\* The value of an opaque transformer applied to a raw value.
Transformed(name, value) == [transformer |-> name, value |-> value]

get_formatted_value(value, column_index) ==
    LET col_dict == columns[column_index]
        transformer_name == IF col_dict.transform = "None" THEN "string"
                            ELSE col_dict.transform
    IN IF transformer_name = "boolean" /\ col_dict.name = "__selected"
       THEN Bool(value)
       ELSE Transformed(transformer_name, value)

\* The image branch of get_formatted_value (1722-1773). m holds the model's
\* image_max_size and image_draw_border, its two caches and the calls made so
\* far. A value is the sequence of its parts: << >> is the empty value (None
\* or ''), << IMAGE_PREFIX, x >> is 'file://x'. Returns m and the value
\* returned.
IMAGE_PREFIX == "file://"
IMAGE_BORDER_SIZE == 6
IMAGE_SHADOW_SIZE == 6
IMAGE_SHADOW_OFFSET == 2

NoValue == << >>

\* transformer(value, **transformer_kwargs) of the image transform: the call
\* is recorded, its result is an image made from the arguments.
ImageTransformer(m, value, visible) ==
    LET call == [fn |-> "transformer", value |-> value, size |-> m.image_max_size,
                 draw_border |-> m.image_draw_border, border_size |-> IMAGE_BORDER_SIZE,
                 shadow_size |-> IMAGE_SHADOW_SIZE, shadow_offset |-> IMAGE_SHADOW_OFFSET,
                 visible |-> visible]
    IN [m |-> [m EXCEPT !.image_calls = Append(@, call)],
        ret |-> [image |-> "transformed", value |-> value, size |-> m.image_max_size,
                 draw_border |-> m.image_draw_border]]

\* NO_IMAGE_PIXBUF.scale_simple(size, size, NEAREST)
ScaleSimple(m, visible) ==
    LET call == [fn |-> "scale_simple", value |-> NoValue, size |-> m.image_max_size,
                 draw_border |-> m.image_draw_border, border_size |-> IMAGE_BORDER_SIZE,
                 shadow_size |-> IMAGE_SHADOW_SIZE, shadow_offset |-> IMAGE_SHADOW_OFFSET,
                 visible |-> visible]
    IN [m |-> [m EXCEPT !.image_calls = Append(@, call)],
        ret |-> [image |-> "NO_IMAGE_PIXBUF", value |-> NoValue, size |-> m.image_max_size,
                 draw_border |-> FALSE]]

\* The variant whose fallback cache is keyed by the size alone.
get_formatted_image_BySize(m, value, visible) ==
    IF value = NoValue
    THEN IF m.image_max_size \in DOMAIN m._invisible_images
         THEN [m |-> m, ret |-> m._invisible_images[m.image_max_size]]
         ELSE Bind(ScaleSimple(m, visible), LAMBDA r :
                [m |-> [r.m EXCEPT !._invisible_images = Put(@, m.image_max_size, r.ret)],
                 ret |-> r.ret])
    ELSE IF ~ visible
    THEN Bind(<< FALSE, m.image_max_size >>, LAMBDA fkey :
            IF fkey \in DOMAIN m._fallback_images
            THEN [m |-> m, ret |-> m._fallback_images[fkey]]
            ELSE Bind(ImageTransformer(m, NoValue, visible), LAMBDA r :
                    [m |-> [r.m EXCEPT !._fallback_images = Put(@, fkey, r.ret)],
                     ret |-> r.ret]))
    ELSE IF value[1] = IMAGE_PREFIX THEN ImageTransformer(m, Tail(value), visible)
    ELSE ImageTransformer(m, NoValue, visible)

get_formatted_image(m, value, visible) ==
    IF value = NoValue
    THEN IF m.image_max_size \in DOMAIN m._invisible_images
         THEN [m |-> m, ret |-> m._invisible_images[m.image_max_size]]
         ELSE Bind(ScaleSimple(m, visible), LAMBDA r :
                [m |-> [r.m EXCEPT !._invisible_images = Put(@, m.image_max_size, r.ret)],
                 ret |-> r.ret])
    ELSE IF ~ visible
    THEN Bind(<< m.image_draw_border, m.image_max_size >>, LAMBDA fkey :
            IF fkey \in DOMAIN m._fallback_images
            THEN [m |-> m, ret |-> m._fallback_images[fkey]]
            ELSE Bind(ImageTransformer(m, NoValue, visible), LAMBDA r :
                    [m |-> [r.m EXCEPT !._fallback_images = Put(@, fkey, r.ret)],
                     ret |-> r.ret]))
    ELSE IF value[1] = IMAGE_PREFIX THEN ImageTransformer(m, Tail(value), visible)
    ELSE ImageTransformer(m, NoValue, visible)

\* a <= b of two tuples of ints: the order of Python's tuples.
RECURSIVE TupleLeq(_, _)
TupleLeq(a, b) ==
    IF a = << >> THEN TRUE
    ELSE IF b = << >> THEN FALSE
    ELSE IF Head(a) # Head(b) THEN Head(a) < Head(b)
    ELSE TupleLeq(Tail(a), Tail(b))

\* `visible` of on_get_value (1918-1925): whether the value of the row is
\* formatted as that of a visible cell.
LookupVisible(s, rowref) ==
    IF s.visible_range # << >>
    THEN TupleLeq(s.visible_range[1], rowref) /\ TupleLeq(rowref, s.visible_range[2])
    ELSE TRUE

\* Returns the state after the lookup and the value.
on_get_value(s, rowref, column) ==
    Bind(_get_row_by_path(s, rowref), LAMBDA r :
        IF r.s.raised # "none" THEN [s |-> r.s, value |-> None]
        ELSE IF column = None THEN [s |-> Raise(r.s, "TypeError"), value |-> None]
        ELSE [s |-> r.s,
              value |-> IF column \in {s.id_column_idx, s.parent_column_idx}
                        THEN r.s.nodes[r.row].data[column]
                        ELSE get_formatted_value(r.s.nodes[r.row].data[column], column)])

\* ------------------------------------------------------------ DataGridView
\* `all(row[0] for row in self.model)` / `any(...)`: the root rows are read in
\* order until one has the value stopOn; each read is a value lookup.
RECURSIVE ScanRows(_, _, _)
ScanRows(s, i, stopOn) ==
    IF s.raised # "none" \/ i >= Len(s.rows) THEN [s |-> s, found |-> FALSE]
    ELSE Bind(on_get_value(s, << i >>, SelectedCol), LAMBDA g :
            IF g.s.raised # "none" THEN [s |-> g.s, found |-> FALSE]
            ELSE IF g.value = stopOn THEN [s |-> g.s, found |-> TRUE]
            ELSE ScanRows(g.s, i + 1, stopOn))

\* self.model.get_iter_first() of an iteration over the model: on_get_iter((0,)).
IterFirst(s) ==
    Bind(_get_row_by_path(s, << 0 >>), LAMBDA r :
        IF r.s.raised = "IndexError" THEN s ELSE r.s)

\* check_btn.set_active(is_active): the button emits 'toggled' when its state
\* changes, which runs on_select_all_column_clicked (connected at 1163-1164)
\* unless the handler is blocked.
RECURSIVE on_select_all_column_clicked(_, _)
set_active(s, is_active, handler_blocked) ==
    LET changed == s.check_btn_toggle_all[1].active # is_active
        s1 == [s EXCEPT !.check_btn_toggle_all =
                  << [active |-> is_active, inconsistent |-> @[1].inconsistent] >>]
    IN IF changed /\ ~ handler_blocked
       THEN on_select_all_column_clicked(s1, is_active)
       ELSE s1

\* The body of _update_toggle_check_btn_activity; handler_blocked is the
\* `with self.check_btn_toggle_all.handler_block(...)` around the two setters.
UpdateToggleCheckBtn(s, handler_blocked) ==
    IF s.check_btn_toggle_all = << >> THEN s
    ELSE Bind(ScanRows(IterFirst(s), 0, FALSE), LAMBDA a :
         Bind(ScanRows(IterFirst(a.s), 0, TRUE), LAMBDA b :
            IF b.s.raised # "none" THEN b.s
            ELSE Bind(set_active(b.s, ~ a.found, handler_blocked), LAMBDA c :
                    IF c.raised # "none" \/ c.check_btn_toggle_all = << >> THEN c
                    ELSE [c EXCEPT !.check_btn_toggle_all[1].inconsistent =
                                      a.found /\ b.found])))

_update_toggle_check_btn_activity(s) == UpdateToggleCheckBtn(s, TRUE)

\* on_model_row_changed if the header checkbox were set without blocking its
\* handler.
on_model_row_changed_Unblocked(s) == UpdateToggleCheckBtn(s, FALSE)

on_model_row_changed(s) == _update_toggle_check_btn_activity(s)

\* model.row_changed(path, itr): the notification and the handlers connected to it.
row_changed(s, path) ==
    on_model_row_changed([s EXCEPT !.signals = Append(@, Signal("row-changed", path))])

\* set_value once the row is found: the in-memory value, then the data source.
WriteThrough(s, row, path, column, value, emit_event) ==
    Bind(on_get_value([s EXCEPT !.nodes[row].data[column] = value], path, s.id_column_idx),
         LAMBDA g :
            IF g.s.raised # "none" THEN g.s
            ELSE IF PyIntRaises(g.value) THEN Raise(g.s, "ValueError")
            ELSE Bind(update_data_source(g.s, columns[column].name, value,
                                         << PyInt(g.value) >>),
                      LAMBDA s2 : IF emit_event THEN row_changed(s2, path) ELSE s2))

set_value(s, path, column, value, emit_event) ==
    Bind(_get_row_by_path(s, path), LAMBDA r :
        IF r.s.raised # "none" THEN r.s
        ELSE WriteThrough(r.s, r.row, path, column, value, emit_event))

\* ------------------------------------------------- iteration and lookup by id
\* iter_rows(): the resident rows below `children`, parents before children.
RECURSIVE Preorder(_, _)
Preorder(s, children) ==
    IF children = << >> THEN << >>
    ELSE << Head(children) >> \o Preorder(s, s.nodes[Head(children)].children)
                              \o Preorder(s, Tail(children))

iter_rows(s) == Preorder(s, s.rows)

\* Node.is_children_loaded(recursive=True) of every row below `children`.
RECURSIVE AllLoaded(_, _)
AllLoaded(s, children) ==
    \A k \in 1..Len(children) :
        /\ is_children_loaded(s.nodes[children[k]])
        /\ AllLoaded(s, s.nodes[children[k]].children)

ChildrenOf(s, parent) == IF parent = None THEN s.rows ELSE s.nodes[parent].children

\* The depth-first part of iter_rows(load_rows=True) as get_row_by_id consumes
\* it: rows are visited from the i-th child of `parent` on, each row's children
\* are loaded before it is yielded, and the iteration stops as soon as row_id
\* is in the row-id index.
RECURSIVE IterLoad(_, _, _, _)
IterLoad(s, parent, i, row_id) ==
    IF s.raised # "none" \/ i > Len(ChildrenOf(s, parent)) THEN [s |-> s, found |-> FALSE]
    ELSE Bind(ChildrenOf(s, parent)[i], LAMBDA row :
         Bind(_ensure_children_is_loaded(s, row), LAMBDA s1 :
            IF s1.raised # "none" THEN [s |-> s1, found |-> FALSE]
            ELSE IF row_id \in DOMAIN s1.row_id_mapper THEN [s |-> s1, found |-> TRUE]
            ELSE Bind(IterLoad(s1, row, 1, row_id), LAMBDA r :
                    IF r.found \/ r.s.raised # "none" THEN r
                    ELSE IterLoad(r.s, parent, i + 1, row_id))))

\* The `while self.add_rows()` part: root pages are added and their rows
\* visited until a page comes back empty.
RECURSIVE IterPages(_, _)
IterPages(s, row_id) ==
    Bind(add_rows(s, None), LAMBDA a :
        IF a.raised # "none" \/ a.ret = "False" THEN [s |-> a, found |-> FALSE]
        ELSE Bind(IterLoad(a, None, Len(s.rows) + 1, row_id), LAMBDA r :
                IF r.found \/ r.s.raised # "none" THEN r ELSE IterPages(r.s, row_id)))

\* iter_rows(load_rows) consumed to its end: the state it leaves and the rows
\* it yielded. _iter_children_aux visits the children of `parent` from the
\* i-th on; the list is read again at every step, as `for row in parent` does.
RECURSIVE _iter_children_aux(_, _, _, _, _)
_iter_children_aux(s, load_rows, parent, i, yielded) ==
    IF s.raised # "none" \/ i > Len(ChildrenOf(s, parent)) THEN [s |-> s, yielded |-> yielded]
    ELSE Bind(ChildrenOf(s, parent)[i], LAMBDA row :
         Bind(IF load_rows THEN _ensure_children_is_loaded(s, row) ELSE s, LAMBDA s1 :
            IF s1.raised # "none" THEN [s |-> s1, yielded |-> yielded]
            ELSE Bind(_iter_children_aux(s1, load_rows, row, 1, Append(yielded, row)),
                      LAMBDA r : _iter_children_aux(r.s, load_rows, parent, i + 1,
                                                    r.yielded))))

\* The `while self.add_rows()` part: the rows of each new page of roots
\* (self.rows[rows_len:]) are visited until a page comes back empty.
RECURSIVE IterRootPages(_, _)
IterRootPages_FromStart(s, yielded) ==
    Bind(add_rows(s, None), LAMBDA a :
        IF a.raised # "none" \/ a.ret = "False" THEN [s |-> a, yielded |-> yielded]
        ELSE Bind(_iter_children_aux(a, TRUE, None, 1, yielded), LAMBDA r :
                IF r.s.raised # "none" THEN r ELSE IterRootPages(r.s, r.yielded)))

IterRootPages(s, yielded) ==
    Bind(add_rows(s, None), LAMBDA a :
        IF a.raised # "none" \/ a.ret = "False" THEN [s |-> a, yielded |-> yielded]
        ELSE Bind(_iter_children_aux(a, TRUE, None, Len(s.rows) + 1, yielded), LAMBDA r :
                IF r.s.raised # "none" THEN r ELSE IterRootPages(r.s, r.yielded)))

IterRows(s, load_rows) ==
    Bind(_iter_children_aux(s, load_rows, None, 1, << >>), LAMBDA r :
        IF ~ load_rows \/ r.s.raised # "none" THEN r ELSE IterRootPages(r.s, r.yielded))

\* The generator iter_rows(load_rows) returns, before its first next(): the
\* stack holds, for each running _iter_children_aux, the collection it walks
\* and the position of its next row.
NoIter == [running |-> FALSE, load_rows |-> FALSE, stack |-> << >>, yielded |-> << >>]
NewIter(load_rows) ==
    [running |-> TRUE, load_rows |-> load_rows,
     stack |-> << [parent |-> None, i |-> 1] >>, yielded |-> << >>]

\* One next() of the generator: the state it leaves, the generator and the row
\* yielded; the generator stops running when it is exhausted or raises.
RECURSIVE Advance(_, _)
Advance_Resident(s, it) ==
    IF it.stack = << >>
    THEN IF ~ it.load_rows THEN [s |-> s, iter |-> [it EXCEPT !.running = FALSE], row |-> None]
         ELSE Bind(add_rows(s, None), LAMBDA a :
                IF a.raised # "none" \/ a.ret = "False"
                THEN [s |-> a, iter |-> [it EXCEPT !.running = FALSE], row |-> None]
                ELSE Advance(a, [it EXCEPT !.stack = << [parent |-> None,
                                                         i |-> Len(s.rows) + 1] >>]))
    ELSE Bind(it.stack[Len(it.stack)], LAMBDA top :
         IF top.i > Len(ChildrenOf(s, top.parent))
         THEN Advance(s, [it EXCEPT !.stack = SubSeq(it.stack, 1, Len(it.stack) - 1)])
         ELSE Bind(ChildrenOf(s, top.parent)[top.i], LAMBDA row :
              Bind(s, LAMBDA s1 :
                IF s1.raised # "none"
                THEN [s |-> s1, iter |-> [it EXCEPT !.running = FALSE], row |-> None]
                ELSE [s |-> s1,
                      iter |-> [it EXCEPT
                                  !.stack = Append([it.stack EXCEPT ![Len(it.stack)].i = top.i + 1],
                                                   [parent |-> row, i |-> 1]),
                                  !.yielded = Append(it.yielded, row)],
                      row |-> row])))

Advance(s, it) ==
    IF it.stack = << >>
    THEN IF ~ it.load_rows THEN [s |-> s, iter |-> [it EXCEPT !.running = FALSE], row |-> None]
         ELSE Bind(add_rows(s, None), LAMBDA a :
                IF a.raised # "none" \/ a.ret = "False"
                THEN [s |-> a, iter |-> [it EXCEPT !.running = FALSE], row |-> None]
                ELSE Advance(a, [it EXCEPT !.stack = << [parent |-> None,
                                                         i |-> Len(s.rows) + 1] >>]))
    ELSE Bind(it.stack[Len(it.stack)], LAMBDA top :
         IF top.i > Len(ChildrenOf(s, top.parent))
         THEN Advance(s, [it EXCEPT !.stack = SubSeq(it.stack, 1, Len(it.stack) - 1)])
         ELSE Bind(ChildrenOf(s, top.parent)[top.i], LAMBDA row :
              Bind(IF it.load_rows THEN _ensure_children_is_loaded(s, row) ELSE s,
                   LAMBDA s1 :
                IF s1.raised # "none"
                THEN [s |-> s1, iter |-> [it EXCEPT !.running = FALSE], row |-> None]
                ELSE [s |-> s1,
                      iter |-> [it EXCEPT
                                  !.stack = Append([it.stack EXCEPT ![Len(it.stack)].i = top.i + 1],
                                                   [parent |-> row, i |-> 1]),
                                  !.yielded = Append(it.yielded, row)],
                      row |-> row])))

get_row_by_id_Resident(s, row_id, load_rows) ==
    [s |-> s, row |-> Get(s.row_id_mapper, row_id, None)]

\* Returns the state after the lookup and the handle of the row, None if not found.
get_row_by_id(s, row_id, load_rows) ==
    IF row_id \in DOMAIN s.row_id_mapper
    THEN [s |-> s, row |-> s.row_id_mapper[row_id]]
    ELSE IF ~ load_rows THEN [s |-> s, row |-> None]
    ELSE Bind(IterLoad(s, None, 1, row_id), LAMBDA r :
         Bind(IF r.found \/ r.s.raised # "none" THEN r ELSE IterPages(r.s, row_id),
              LAMBDA q :
                [s |-> [q.s EXCEPT !.ret = s.ret],
                 row |-> IF q.found THEN q.s.row_id_mapper[row_id] ELSE None]))

\* ---------------------------------------------------- expand / collapse state
\* Sequencing of calls: a raised exception skips what follows.
Then(s, F(_)) == IF s.raised # "none" THEN s ELSE F(s)

on_treeview_all_expanded(s, value) ==
    [s EXCEPT !.expand_all_btn = ~ value, !.collapse_all_btn = value]

\* Returns the state (the cache may have been filled) and the ids, or
\* known = FALSE for None.
_get_expandable_ids_Resident(s) ==
    IF s.expandable_ids # {} THEN [s |-> s, known |-> TRUE]
    ELSE LET order == iter_rows(s)
             ids == {s.nodes[order[k]].data[s.id_column_idx] :
                        k \in {j \in 1..Len(order) : Len(s.nodes[order[j]].children) > 0}}
         IN [s |-> [s EXCEPT !.expandable_ids = ids], known |-> TRUE]

_get_expandable_ids(s) ==
    IF s.expandable_ids # {} THEN [s |-> s, known |-> TRUE]
    ELSE IF ~ AllLoaded(s, s.rows) THEN [s |-> s, known |-> FALSE]
    ELSE LET order == iter_rows(s)
             ids == {s.nodes[order[k]].data[s.id_column_idx] :
                        k \in {j \in 1..Len(order) : Len(s.nodes[order[j]].children) > 0}}
         IN [s |-> [s EXCEPT !.expandable_ids = ids], known |-> TRUE]

_check_all_expanded(s) ==
    IF s.block_all_expanded THEN s
    ELSE Bind(_get_expandable_ids(s), LAMBDA e :
         Bind(e.known /\ s.expanded_ids = e.s.expandable_ids, LAMBDA new :
            IF new # s.all_expanded
            THEN on_treeview_all_expanded(
                    [e.s EXCEPT !.all_expanded = new,
                                !.signals = Append(@, Signal("all-expanded", new))], new)
            ELSE [e.s EXCEPT !.all_expanded = new]))

on_row_expanded(s, path) ==
    Bind(on_get_value(s, path, s.id_column_idx), LAMBDA g :
        IF g.s.raised # "none" THEN g.s
        ELSE _check_all_expanded([g.s EXCEPT !.expanded_ids = @ \cup {g.value}]))

on_row_collapsed(s, path) ==
    Bind(on_get_value(s, path, s.id_column_idx), LAMBDA g :
        IF g.s.raised # "none" THEN g.s
        ELSE _check_all_expanded([g.s EXCEPT !.expanded_ids = @ \ {g.value}]))

\* on_iter_has_child: bool() of the row, after its children were loaded.
on_iter_has_child(s, rowref) ==
    Bind(_get_row_by_path(s, rowref), LAMBDA r :
        [s |-> r.s,
         value |-> r.s.raised = "none" /\ Len(r.s.nodes[r.row].children) > 0])

\* The other navigation primitives of the tree model. A rowref is a path;
\* NonePath is None, as an argument (the root) and as a value (no such row).
\* Each returns the state after its lookup and its value.
on_iter_children(s, rowref) ==
    IF rowref = NonePath THEN [s |-> s, value |-> << 0 >>]
    ELSE Bind(_get_row_by_path(s, rowref), LAMBDA r :
            [s |-> r.s,
             value |-> IF r.s.raised # "none" \/ Len(r.s.nodes[r.row].children) = 0
                       THEN NonePath ELSE rowref \o << 0 >>])

on_iter_n_children(s, rowref) ==
    IF rowref = NonePath THEN [s |-> s, value |-> Len(s.rows)]
    ELSE Bind(_get_row_by_path(s, rowref), LAMBDA r :
            [s |-> r.s,
             value |-> IF r.s.raised # "none" THEN None
                       ELSE Len(r.s.nodes[r.row].children)])

on_iter_nth_child(s, parent, n) ==
    IF parent = NonePath
    THEN [s |-> s, value |-> IF 0 <= n /\ n < Len(s.rows) THEN << n >> ELSE NonePath]
    ELSE Bind(_get_row_by_path(s, parent), LAMBDA r :
            [s |-> r.s,
             value |-> IF r.s.raised = "none" /\ 0 <= n
                          /\ n < Len(r.s.nodes[r.row].children)
                       THEN parent \o << n >> ELSE NonePath])

on_iter_parent(child) ==
    IF Len(child) = 1 THEN NonePath ELSE SubSeq(child, 1, Len(child) - 1)

on_iter_next(s, rowref) ==
    IF rowref = NonePath THEN [s |-> s, value |-> NonePath]
    ELSE IF Len(rowref) = 1
    THEN [s |-> s,
          value |-> IF rowref[1] + 1 < Len(s.rows) THEN << rowref[1] + 1 >> ELSE NonePath]
    ELSE Bind(_get_row_by_path(s, SubSeq(rowref, 1, Len(rowref) - 1)), LAMBDA r :
            [s |-> r.s,
             value |-> IF r.s.raised = "none"
                          /\ Last(rowref) + 1 < Len(r.s.nodes[r.row].children)
                       THEN SubSeq(rowref, 1, Len(rowref) - 1) \o << Last(rowref) + 1 >>
                       ELSE NonePath])

IsPrefix(p, q) == Len(p) <= Len(q) /\ SubSeq(q, 1, Len(p)) = p

\* Gtk.TreeView.expand_row: a row that has children and is not expanded is
\* expanded, and row-expanded is emitted for it.
ExpandRow(s, path) ==
    IF NodeAt(s, s.rows, path) = None \/ path \in s.gtk_expanded THEN s
    ELSE Bind(on_iter_has_child(s, path), LAMBDA h :
            IF h.s.raised # "none" \/ ~ h.value THEN h.s
            ELSE on_row_expanded(
                    [h.s EXCEPT !.gtk_expanded = @ \cup {path},
                                !.signals = Append(@, Signal("row-expanded", path))], path))

\* Gtk.TreeView.collapse_row: the row's subtree is dropped from the widget and
\* row-collapsed is emitted for the row.
CollapseRow(s, path) ==
    IF path \notin s.gtk_expanded THEN s
    ELSE on_row_collapsed(
            [s EXCEPT !.gtk_expanded = {q \in @ : ~ IsPrefix(path, q)},
                      !.signals = Append(@, Signal("row-collapsed", path))], path)

\* Gtk.TreeView.expand_to_path: expand_row on every prefix of the path, the
\* path itself included.
RECURSIVE ExpandPrefixes(_, _, _)
ExpandPrefixes(s, path, k) ==
    IF s.raised # "none" \/ k > Len(path) THEN s
    ELSE ExpandPrefixes(ExpandRow(s, SubSeq(path, 1, k)), path, k + 1)

expand_to_path(s, path) == ExpandPrefixes(s, path, 1)

SetMin(S) == CHOOSE x \in S : \A y \in S : x <= y

\* The loop of DataGridView.refresh over the ids that were expanded.
RECURSIVE ReExpand(_, _)
ReExpand(s, ids) ==
    IF s.raised # "none" \/ ids = {} THEN s
    ELSE Bind(get_row_by_id(s, SetMin(ids), TRUE), LAMBDA r :
            ReExpand(IF r.s.raised # "none" \/ r.row = None THEN r.s
                     ELSE expand_to_path(r.s, r.s.nodes[r.row].path),
                     ids \ {SetMin(ids)}))

\* ------------------------------------------------------- the views' refresh
\* The names _setup_columns never builds a column for.
dont_display(s) ==
    {"__selected"} \cup
    IF s.data_source.display_all THEN {}
    ELSE {ID_COLUMN, PARENT_ID_COLUMN} \cup
         IF Get(s.active_params, "flat", FALSE) THEN {} ELSE {FLAT_COLUMN}

\* The data columns _setup_columns builds, by name, in column order.
BuiltColumns(s) ==
    SelectSeq([i \in 1..Len(ColumnSeq(s.data_source)) |-> ColumnSeq(s.data_source)[i].name],
              LAMBDA item : item \in s.display_columns /\ item \notin dont_display(s))

_setup_columns(s) ==
    _update_toggle_check_btn_activity(
        IF s.has_checkboxes
        THEN [s EXCEPT !.check_btn_toggle_all =
                 << [active |-> FALSE, inconsistent |-> FALSE] >>,
                       !.tree_columns = BuiltColumns(s)]
        ELSE [s EXCEPT !.tree_columns = BuiltColumns(s)])

\* DataGridView.refresh after the columns were set up: the rows that were
\* expanded are expanded again.
RestoreExpanded_Unblocked(s, ids) ==
    IF s.raised # "none" THEN s
    ELSE Bind(ReExpand([s EXCEPT !.expandable_ids = {}, !.expanded_ids = {}], ids),
              LAMBDA s4 :
                IF s4.raised # "none" THEN s4
                ELSE _check_all_expanded([s4 EXCEPT !.block_all_expanded = FALSE]))

RestoreExpanded(s, ids) ==
    IF s.raised # "none" THEN s
    ELSE Bind(ReExpand([s EXCEPT !.expandable_ids = {}, !.expanded_ids = {},
                                 !.block_all_expanded = TRUE], ids),
              LAMBDA s4 :
                IF s4.raised # "none" THEN s4
                ELSE _check_all_expanded([s4 EXCEPT !.block_all_expanded = FALSE]))

DataGridView_refresh(s) ==
    RestoreExpanded(Then(refresh([s EXCEPT !.gtk_expanded = {}]), _setup_columns),
                    s.expanded_ids)

DataGridIconView_refresh(s) == refresh(s)

\* widget.get_sort_order() of the header of a column _setup_columns built: the
\* recorded order for the active sort column, the toolkit's default otherwise.
get_sort_order(s, column) ==
    IF << column >> = s.active_sort_column THEN s.active_sort_column_order
    ELSE "ASCENDING"

on_tvcol_clicked_Flipped(s, column) ==
    Bind(get_sort_order(s, column), LAMBDA sort_order :
        DataGridView_refresh(
            [s EXCEPT !.active_sort_column = << column >>,
                      !.active_sort_column_order =
                          IF sort_order = "ASCENDING" THEN "DESCENDING" ELSE "ASCENDING",
                      !.active_params =
                          Put(Put(@, "order_by", column),
                              "desc", sort_order = "ASCENDING")]))

on_tvcol_clicked(s, column) ==
    Bind(get_sort_order(s, column), LAMBDA sort_order :
        DataGridView_refresh(
            [s EXCEPT !.active_sort_column = << column >>,
                      !.active_sort_column_order =
                          IF sort_order = "ASCENDING" THEN "DESCENDING" ELSE "ASCENDING",
                      !.active_params =
                          Put(Put(@, "order_by", column),
                              "desc", sort_order = "DESCENDING")]))

\* Gtk.TreeView.expand_all: every row that has children is expanded, a row
\* before the rows below it (the toolkit asks the model for the children of
\* each row it expands and emits row-expanded for it).
RECURSIVE ExpandBelow(_, _, _)
ExpandBelow(s, prefix, k) ==
    IF s.raised # "none"
       \/ k > Len(IF prefix = << >> THEN s.rows
                  ELSE s.nodes[NodeAt(s, s.rows, prefix)].children)
    THEN s
    ELSE ExpandBelow(ExpandBelow(ExpandRow(s, prefix \o << k - 1 >>),
                                 prefix \o << k - 1 >>, 1),
                     prefix, k + 1)

\* Gtk.TreeView.collapse_all: every expanded root is collapsed.
RECURSIVE CollapseRoots(_, _)
CollapseRoots(s, k) ==
    IF s.raised # "none" \/ k > Len(s.rows) THEN s
    ELSE CollapseRoots(CollapseRow(s, << k - 1 >>), k + 1)

\* DataGridView.expand_all
expand_all(s) ==
    Bind(ExpandBelow([s EXCEPT !.block_all_expanded = TRUE], << >>, 1), LAMBDA e :
        IF e.raised # "none" THEN e
        ELSE _check_all_expanded([e EXCEPT !.block_all_expanded = FALSE]))

\* DataGridView.collapse_all
collapse_all(s) ==
    Bind(CollapseRoots([s EXCEPT !.block_all_expanded = TRUE], 1), LAMBDA e :
        IF e.raised # "none" THEN e
        ELSE _check_all_expanded([e EXCEPT !.block_all_expanded = FALSE]))

view_refresh(s) ==
    IF s.view = "tree_view" THEN DataGridView_refresh(s) ELSE DataGridIconView_refresh(s)

\* ------------------------------------------------------ DataGridController
VIEW_TREE == 0
VIEW_FLAT == 1
VIEW_ICON == 2

\* where_dict after the removals and the updates of _refresh_view.
MergeWhere_UpdateFirst(where_dict, update_dict, remove_keys) ==
    [x \in (DOMAIN where_dict \cup DOMAIN update_dict) \ remove_keys |->
        Update(where_dict, update_dict)[x]]

MergeWhere(where_dict, update_dict, remove_keys) ==
    Update([x \in (DOMAIN where_dict) \ remove_keys |-> where_dict[x]], update_dict)

\* The visibility of the expand-all and collapse-all buttons after a refresh.
SetButtons_Expandable(s) ==
    IF s.raised # "none" THEN s
    ELSE IF s.view = "tree_view"
            /\ \E k \in 1..Len(s.rows) : s.nodes[s.rows[k]].children_len > 0
         THEN [s EXCEPT !.expand_all_btn = TRUE, !.collapse_all_btn = FALSE]
         ELSE [s EXCEPT !.expand_all_btn = FALSE, !.collapse_all_btn = FALSE]

SetButtons(s) ==
    IF s.raised # "none" THEN s
    ELSE IF s.view = "tree_view"
            /\ \E k \in 1..Len(s.rows) : Len(s.nodes[s.rows[k]].children) > 0
         THEN [s EXCEPT !.expand_all_btn = TRUE, !.collapse_all_btn = FALSE]
         ELSE [s EXCEPT !.expand_all_btn = FALSE, !.collapse_all_btn = FALSE]

_refresh_view(s, update_dict, remove_keys) ==
    Bind(MergeWhere(Get(s.active_params, "where", EmptyDict), update_dict, remove_keys),
         LAMBDA where_dict :
            SetButtons(view_refresh(
                [s EXCEPT !.active_params =
                    IF DOMAIN where_dict = {} THEN Del(@, "where")
                    ELSE Put(@, "where", where_dict)])))

\* The view, image size and decoration a view mode selects.
ViewOf(new_view) == IF new_view = VIEW_ICON THEN "icon_view" ELSE "tree_view"
ImageMaxSizeOf(new_view) == IF new_view = VIEW_ICON THEN 100 ELSE 24
ImageDrawBorderOf(new_view) == new_view = VIEW_ICON
FlatOf_Requested(flat_idx, new_view) == new_view \in {VIEW_FLAT, VIEW_ICON}
FlatOf(flat_idx, new_view) == flat_idx # None /\ new_view \in {VIEW_FLAT, VIEW_ICON}

on_popup_view_changed(s, new_view) ==
    Bind(_refresh_view(
            [s EXCEPT !.view = ViewOf(new_view),
                      !.image_max_size = ImageMaxSizeOf(new_view),
                      !.image_draw_border = ImageDrawBorderOf(new_view),
                      !.active_params = Put(@, "flat", FlatOf(s.flat_column_idx, new_view))],
            EmptyDict, {}),
         LAMBDA s2 :
            IF s2.raised # "none" THEN s2
            ELSE [s2 EXCEPT !.signals = Append(@, Signal("selected_record_callback", None))])

NO_FILTER_OPTION == -2

on_filter_changed_Eq(s, attr, value) ==
    IF value = NO_FILTER_OPTION THEN _refresh_view(s, EmptyDict, {attr})
    ELSE _refresh_view(s, Put(EmptyDict, attr, [operator |-> "=", param |-> value]), {})

on_filter_changed(s, attr, value) ==
    IF value = NO_FILTER_OPTION THEN _refresh_view(s, EmptyDict, {attr})
    ELSE _refresh_view(s,
            Put(EmptyDict, attr,
                [operator |-> IF value = None THEN "is" ELSE "=", param |-> value]),
            {})

\* Whether add_options_filter finds a column of the model named attr.
HasColumn_Any(s, attr) == TRUE

HasColumn(s, attr) ==
    \E i \in 1..Len(ColumnSeq(s.data_source)) : ColumnSeq(s.data_source)[i].name = attr

\* The combo add_options_filter builds: its option values, the first one
\* active.
FilterCombo(attr, options, add_empty_option) ==
    Bind((IF add_empty_option THEN << NO_FILTER_OPTION >> ELSE << >>) \o options,
         LAMBDA model :
            [attr |-> attr, model |-> model,
             active |-> IF Len(model) > 0 THEN 0 ELSE -1])

\* extra_filter_widgets maps attr to the position of its combo in the
\* filters area.
add_options_filter(s, attr, options, add_empty_option) ==
    IF ~ HasColumn(s, attr) THEN Raise(s, "ValueError")
    ELSE [s EXCEPT !.extra_filter_widgets =
                       Put(@, attr, Len(s.container.extra_filters) + 1),
                   !.container.extra_filters =
                       Append(@, FilterCombo(attr, options, add_empty_option)),
                   !.container.filters_separator = TRUE,
                   !.ret = "combo"]

\* update_dict of on_search_clicked.
SearchUpdate_NonEmpty(search) ==
    IF search = "" THEN EmptyDict
    ELSE Put(EmptyDict, "search", [operator |-> "=", param |-> search])

SearchUpdate(search) == Put(EmptyDict, "search", [operator |-> "=", param |-> search])

on_search_clicked(s) == _refresh_view(s, SearchUpdate(s.container.entry_search), {})

\* A timestamp, seconds since the epoch, as << days, seconds of the day >>:
\* MAX_TIMESTAMP = 2147485547 = 24855 * 86400 + 13547 is beyond the integers
\* of the checker.
Timestamp(days, seconds) == << days, seconds >>
MIN_TIMESTAMP == Timestamp(0, 0)
MAX_TIMESTAMP == Timestamp(24855, 13547)

\* _get_timestamp_from_str of the text of a date entry (a day number) with
\* the time of day appended.
_get_timestamp_from_str(day, hour, minute) == Timestamp(day, hour * 3600 + minute * 60)

start_timestamp(s) ==
    IF s.date_start.text # << >>
    THEN _get_timestamp_from_str(s.date_start.text[1], 0, 0) ELSE MIN_TIMESTAMP

end_timestamp(s) ==
    IF s.date_end.text # << >>
    THEN _get_timestamp_from_str(s.date_end.text[1], 23, 59) ELSE MAX_TIMESTAMP

\* The names in the model of the date column combo.
remove_columns(s) ==
    {s.container.combobox_date_columns.model[i] :
        i \in 1..Len(s.container.combobox_date_columns.model)}

on_date_change(s) ==
    IF s.container.combobox_date_columns.active < 0 THEN Raise(s, "UnboundLocalError")
    ELSE _refresh_view(s,
            Put(EmptyDict,
                s.container.combobox_date_columns.model[
                    s.container.combobox_date_columns.active + 1],
                [operator |-> "range",
                 param |-> << start_timestamp(s), end_timestamp(s) >>]),
            remove_columns(s))

\* The names _get_visibility_options offers a switch for, in column order.
_get_visibility_options(s) ==
    SelectSeq([i \in 1..Len(ColumnSeq(s.data_source)) |-> ColumnSeq(s.data_source)[i].name],
              LAMBDA name : ~ IsReserved(name))

on_popup_column_visibility_changed(s, name, value) ==
    Bind(IF value THEN s.display_columns \cup {name} ELSE s.display_columns \ {name},
         LAMBDA display :
            view_refresh(
                [s EXCEPT !.display_columns = display,
                          !.calls = Append(@, Call("update_selected_columns", display,
                                                   << >>))]))

\* where_params of on_select_all_column_clicked.
SelectAllParams_All(params) == params

SelectAllParams(params) ==
    IF "where" \in DOMAIN params THEN Put(EmptyDict, "where", params["where"])
    ELSE EmptyDict

on_select_all_column_clicked(s, val) ==
    Bind(SelectAllParams(s.active_params), LAMBDA where_params :
        DataGridView_refresh(
            update_data_source(
                [s EXCEPT !.calls = Append(@, Call("get_all_record_ids", where_params, << >>))],
                "__selected", PyBool(val),
                get_all_record_ids(s.data_source, where_params))))

on_toggle(s, path, col_index) ==
    Bind(on_get_value(s, path, col_index), LAMBDA g :
        IF g.s.raised # "none" THEN g.s
        ELSE set_value(g.s, path, col_index, PyBool(~ g.value), TRUE))

_toggle_path(s, path) ==
    Bind(on_get_value(s, path, SelectedCol), LAMBDA g :
        IF g.s.raised # "none" THEN g.s
        ELSE Bind(set_value(g.s, path, SelectedCol, PyBool(~ g.value), FALSE), LAMBDA s1 :
                IF s1.raised # "none" THEN s1
                ELSE [s1 EXCEPT !.signals = Append(@, Signal("queue_draw", None))]))

\* DataGridIconView.on_key_press_event: `selections` is what
\* get_selected_items() returns, in the toolkit's order.
on_key_press_event(s, space_pressed, selections) ==
    IF ~ space_pressed THEN [s EXCEPT !.ret = "False"]
    ELSE IF ~ s.has_checkboxes THEN [s EXCEPT !.ret = "True"]
    ELSE IF selections = << >> THEN [s EXCEPT !.ret = "True"]
    ELSE Bind(_toggle_path(s, selections[1]), LAMBDA s1 :
            IF s1.raised # "none" THEN s1 ELSE [s1 EXCEPT !.ret = "True"])

\* DataGridIconView.on_button_release_event: `path` is what get_path_at_pos
\* returns for the pointer (<< >> when it is over no item) and `intersects`
\* whether the pointer is inside the checkbox rectangle of that item.
on_button_release_event(s, path, intersects) ==
    IF ~ s.has_checkboxes THEN [s EXCEPT !.ret = "False"]
    ELSE IF path = << >> THEN [s EXCEPT !.ret = "False"]
    ELSE IF intersects
         THEN Bind(_toggle_path(s, path), LAMBDA s1 :
                IF s1.raised # "none" THEN s1 ELSE [s1 EXCEPT !.ret = "True"])
         ELSE [s EXCEPT !.ret = "False"]

on_scrolled(s, range, scrolled_to_bottom) ==
    IF scrolled_to_bottom
    THEN add_rows([s EXCEPT !.visible_range = IF s.view = "icon_view" THEN range ELSE << >>],
                  None)
    ELSE [s EXCEPT !.visible_range = IF s.view = "icon_view" THEN range ELSE << >>]

\* DataGridModel.__init__ and DataGridController.bind_datasource.
\* The date column combo after bind_datasource gave it the list of the date
\* columns: a combo loses its active row with its model; the first bind
\* packs the cell and selects the first row.
BindCombo(combo, liststore_date_cols) ==
    [model |-> liststore_date_cols,
     active |-> IF ~ combo.cells /\ Len(liststore_date_cols) > 0 THEN 0 ELSE -1,
     cells |-> TRUE,
     visible |-> Len(liststore_date_cols) >= 2]

\* The date widgets after bind_datasource.
BindDateWidgets(s, liststore_date_cols) ==
    [s EXCEPT !.date_start.sensitive = @ \/ Len(liststore_date_cols) > 0,
              !.date_end.sensitive = @ \/ Len(liststore_date_cols) > 0,
              !.container.combobox_date_columns = BindCombo(@, liststore_date_cols),
              !.container.date_column_label = Len(liststore_date_cols) >= 2,
              !.container.date_range = Len(liststore_date_cols) # 0,
              !.container.filters_separator = Len(liststore_date_cols) # 0]

bind_datasource(s, ds) ==
    _refresh_view(
        BindDateWidgets(
            [s EXCEPT !.data_source = ds,
                      !.active_params = Put(EmptyDict, "flat", FALSE),
                      !.rows = << >>, !.nodes = << >>,
                      !.row_id_mapper = EmptyDict,
                      !.id_column_idx = None, !.parent_column_idx = None,
                      !.flat_column_idx = None, !.total_recs = None,
                      !.image_max_size = 24, !.image_draw_border = FALSE,
                      !.visible_range = << >>,
                      !.display_columns = InitialDisplayColumns(ds)],
            [i \in 1..Len(datetime_columns(ds)) |-> datetime_columns(ds)[i].name]),
        EmptyDict, {})

\* DataGridView._get_best_column_width, of the pixel widths of the sampled
\* values (lengths) and the pixel width of the column's label.
MIN_WIDTH == 40
MAX_WIDTH == 400

max_length(lengths) ==
    IF lengths # {} THEN CHOOSE m \in lengths : \A x \in lengths : x <= m ELSE 1

_get_best_column_width_Clamped(lengths, label_width) ==
    IF max_length(lengths) < MIN_WIDTH THEN MIN_WIDTH
    ELSE IF max_length(lengths) > MAX_WIDTH THEN MAX_WIDTH
    ELSE max_length(lengths)

_get_best_column_width(lengths, label_width) ==
    IF max_length(lengths) < MIN_WIDTH
    THEN IF MIN_WIDTH < label_width THEN label_width + 20 ELSE MIN_WIDTH
    ELSE IF max_length(lengths) > MAX_WIDTH THEN MAX_WIDTH
    ELSE max_length(lengths)

\* ---------------------------------------------------------------- imageutils
\* An image is its size (width, height). A shadow is the image add_drop_shadow
\* builds: its size, the box and colour of the shadow pasted in it, the number
\* of BLUR filters applied, and the image pasted on top with its position
\* (none before the paste).
abs(x) == IF x < 0 THEN -x ELSE x
max(a, b) == IF a > b THEN a ELSE b

\* key of add_drop_shadow.
key_NoOffset(image, iterations, border_size, offset, shadow_color) ==
    << image[1] + abs(offset[1]) + 2 * border_size,
       image[2] + abs(offset[2]) + 2 * border_size,
       iterations, border_size, << 0, 0 >>, shadow_color >>

key(image, iterations, border_size, offset, shadow_color) ==
    << image[1] + abs(offset[1]) + 2 * border_size,
       image[2] + abs(offset[2]) + 2 * border_size,
       iterations, border_size, offset, shadow_color >>

\* The shadow of the else branch before the blur: Image.new and the paste of
\* the shadow colour.
NewShadow(image, border_size, offset, shadow_color) ==
    [size |-> << image[1] + abs(offset[1]) + 2 * border_size,
                 image[2] + abs(offset[2]) + 2 * border_size >>,
     box |-> << border_size + max(offset[1], 0), border_size + max(offset[2], 0),
                border_size + max(offset[1], 0) + image[1],
                border_size + max(offset[2], 0) + image[2] >>,
     color |-> shadow_color, blurred |-> 0, pasted |-> << >>]

\* The variant that stores the shadow itself, not a copy: the paste of the
\* image then changes the stored object too.
add_drop_shadow_NoCopy(c, image, iterations, border_size, offset, shadow_color) ==
    Bind(key(image, iterations, border_size, offset, shadow_color), LAMBDA k :
        Bind(IF k \in DOMAIN c.cache THEN c.cache[k]
             ELSE [NewShadow(image, border_size, offset, shadow_color)
                      EXCEPT !.blurred = iterations],
             LAMBDA shadow :
                [cache |-> IF k \in DOMAIN c.cache THEN c.cache
                           ELSE Put(c.cache, k,
                                    [shadow EXCEPT !.pasted =
                                        << image, border_size - Min(offset[1], 0),
                                           border_size - Min(offset[2], 0) >>]),
                 blurs |-> IF k \in DOMAIN c.cache THEN c.blurs
                           ELSE c.blurs \o [i \in 1..iterations |-> k],
                 shadow |-> [shadow EXCEPT !.pasted =
                                << image, border_size - Min(offset[1], 0),
                                   border_size - Min(offset[2], 0) >>]]))

\* add_drop_shadow on the cache c.cache and the log c.blurs of the BLUR
\* filters applied, one entry (the key) for each.
add_drop_shadow(c, image, iterations, border_size, offset, shadow_color) ==
    Bind(key(image, iterations, border_size, offset, shadow_color), LAMBDA k :
        Bind(IF k \in DOMAIN c.cache THEN c.cache[k]
             ELSE [NewShadow(image, border_size, offset, shadow_color)
                      EXCEPT !.blurred = iterations],
             LAMBDA shadow :
                [cache |-> IF k \in DOMAIN c.cache THEN c.cache ELSE Put(c.cache, k, shadow),
                 blurs |-> IF k \in DOMAIN c.cache THEN c.blurs
                           ELSE c.blurs \o [i \in 1..iterations |-> k],
                 shadow |-> [shadow EXCEPT !.pasted =
                                << image, border_size - Min(offset[1], 0),
                                   border_size - Min(offset[2], 0) >>]]))

\* get_icon_for_file. An icon identifier '%s-%s' % (a, b) is the sequence of
\* its parts << a, b >>; a mimetype is << type, subtype >>, << >> when
\* mimetypes.guess_type returns None.
icon_list(isdir, guessed) ==
    Bind(IF isdir THEN << "folder", "folder" >>
         ELSE IF guessed = << >> THEN << "unknown", "unknown" >> ELSE guessed,
         LAMBDA mime :
            << << mime[1], mime[2] >>, << mime[2] >>, << mime[1] >> >>
            \o (IF mime[1] = "application" THEN << << "application", "x", mime[2] >> >>
                ELSE << >>)
            \o << << mime[1], "x", "generic" >>, << "unknown" >> >>)

\* Gtk.IconTheme.choose_icon: the first name of the list the theme has an icon
\* for, None (the empty sequence here) if it has none of them.
choose_icon(theme, names) ==
    IF \E i \in 1..Len(names) : names[i] \in theme
    THEN names[CHOOSE i \in 1..Len(names) :
                  names[i] \in theme /\ \A j \in 1..(i - 1) : names[j] \notin theme]
    ELSE << >>

\* The value returned (the file of the icon chosen) and the exception raised.
get_icon_for_file(theme, isdir, guessed) ==
    IF choose_icon(theme, icon_list(isdir, guessed)) = << >>
    THEN [ret |-> "None", raised |-> "AttributeError"]
    ELSE [ret |-> << "filename", choose_icon(theme, icon_list(isdir, guessed)) >>,
          raised |-> "none"]

\* _drop_shadows_cache, the blur log and the width call before any call.
NoCall == [lengths |-> {}, label_width |-> 0, width |-> 0]

\* ------------------------------------------------------------ specification
\* The data sources the model is checked over: up to MaxRecs records with ids
\* 1..n, each record's parent among the records before it, and each of the id,
\* parent and flat columns defined or not.
ParentMaps(n, pc) ==
    IF pc = None THEN {[i \in 1..n |-> None]}
    ELSE {f \in [1..n -> {None} \cup 1..n] : \A i \in 1..n : f[i] = None \/ f[i] < i}

DataSources ==
    UNION {
      {[n |-> n, parent |-> f, selected |-> [i \in 1..n |-> 0],
        id_column_idx |-> ic, parent_column_idx |-> pc, flat_column_idx |-> fc,
        total_recs |-> None, extra |-> << >>, display_all |-> FALSE] :
       f \in ParentMaps(n, pc)} :
      n \in 0..MaxRecs, ic \in {IdCol, None}, pc \in {ParentCol, None},
      fc \in {NameCol, None}}

\* The controller before its first bind_datasource.
Blank(ds, hc) ==
    [data_source |-> ds, active_params |-> EmptyDict, rows |-> << >>, nodes |-> << >>,
     row_id_mapper |-> EmptyDict, id_column_idx |-> None, parent_column_idx |-> None,
     flat_column_idx |-> None, total_recs |-> None, image_max_size |-> 24,
     image_draw_border |-> FALSE, visible_range |-> << >>, view |-> "tree_view",
     has_checkboxes |-> hc, check_btn_toggle_all |-> << >>, expanded_ids |-> {},
     expandable_ids |-> {}, all_expanded |-> FALSE, block_all_expanded |-> FALSE,
     gtk_expanded |-> {}, expand_all_btn |-> TRUE, collapse_all_btn |-> TRUE,
     display_columns |-> {}, tree_columns |-> << >>,
     active_sort_column |-> << >>, active_sort_column_order |-> "None",
     extra_filter_widgets |-> EmptyDict,
     container |-> [entry_search |-> "", extra_filters |-> << >>,
                    combobox_date_columns |->
                        [model |-> << >>, active |-> -1, cells |-> FALSE, visible |-> TRUE],
                    date_column_label |-> TRUE, date_range |-> TRUE,
                    filters_separator |-> TRUE],
     date_start |-> [text |-> << >>, sensitive |-> FALSE],
     date_end |-> [text |-> << >>, sensitive |-> FALSE],
     calls |-> << >>, signals |-> << >>, ret |-> "None", raised |-> "none"]

\* The next state is the state the handler leaves; `last` records the handler.
Assign(s, op, args) ==
    /\ data_source' = s.data_source
    /\ active_params' = s.active_params
    /\ rows' = s.rows
    /\ nodes' = s.nodes
    /\ row_id_mapper' = s.row_id_mapper
    /\ id_column_idx' = s.id_column_idx
    /\ parent_column_idx' = s.parent_column_idx
    /\ flat_column_idx' = s.flat_column_idx
    /\ total_recs' = s.total_recs
    /\ image_max_size' = s.image_max_size
    /\ image_draw_border' = s.image_draw_border
    /\ visible_range' = s.visible_range
    /\ view' = s.view
    /\ has_checkboxes' = s.has_checkboxes
    /\ check_btn_toggle_all' = s.check_btn_toggle_all
    /\ expanded_ids' = s.expanded_ids
    /\ expandable_ids' = s.expandable_ids
    /\ all_expanded' = s.all_expanded
    /\ block_all_expanded' = s.block_all_expanded
    /\ gtk_expanded' = s.gtk_expanded
    /\ expand_all_btn' = s.expand_all_btn
    /\ collapse_all_btn' = s.collapse_all_btn
    /\ display_columns' = s.display_columns
    /\ tree_columns' = s.tree_columns
    /\ active_sort_column' = s.active_sort_column
    /\ active_sort_column_order' = s.active_sort_column_order
    /\ extra_filter_widgets' = s.extra_filter_widgets
    /\ container' = s.container
    /\ date_start' = s.date_start
    /\ date_end' = s.date_end
    /\ UNCHANGED << drop_shadows_cache, blurs, best_width, image_vars >>
    /\ calls' = s.calls
    /\ signals' = s.signals
    /\ last' = [op |-> op, args |-> args, ret |-> s.ret, raised |-> s.raised,
                params |-> active_params]

\* A handler runs while no iteration over the rows is being consumed.
Apply(s, op, args) ==
    /\ steps < MaxSteps
    /\ steps' = steps + 1
    /\ Len(s.nodes) <= MaxNodes
    /\ Get(s.active_params, "page", 0) <= MaxPage
    /\ ~ iter.running
    /\ UNCHANGED iter
    /\ Assign(s, op, args)

\* The state after DataGridController.__init__, which binds the data source.
Constructed(s) ==
    /\ s.raised = "none"
    /\ data_source = s.data_source
    /\ active_params = s.active_params
    /\ rows = s.rows
    /\ nodes = s.nodes
    /\ row_id_mapper = s.row_id_mapper
    /\ id_column_idx = s.id_column_idx
    /\ parent_column_idx = s.parent_column_idx
    /\ flat_column_idx = s.flat_column_idx
    /\ total_recs = s.total_recs
    /\ image_max_size = s.image_max_size
    /\ image_draw_border = s.image_draw_border
    /\ visible_range = s.visible_range
    /\ view = s.view
    /\ has_checkboxes = s.has_checkboxes
    /\ check_btn_toggle_all = s.check_btn_toggle_all
    /\ expanded_ids = s.expanded_ids
    /\ expandable_ids = s.expandable_ids
    /\ all_expanded = s.all_expanded
    /\ block_all_expanded = s.block_all_expanded
    /\ gtk_expanded = s.gtk_expanded
    /\ expand_all_btn = s.expand_all_btn
    /\ collapse_all_btn = s.collapse_all_btn
    /\ display_columns = s.display_columns
    /\ tree_columns = s.tree_columns
    /\ active_sort_column = s.active_sort_column
    /\ active_sort_column_order = s.active_sort_column_order
    /\ extra_filter_widgets = s.extra_filter_widgets
    /\ container = s.container
    /\ date_start = s.date_start
    /\ date_end = s.date_end
    /\ drop_shadows_cache = EmptyDict
    /\ blurs = << >>
    /\ best_width = NoCall
    /\ iter = NoIter
    /\ _invisible_images = EmptyDict
    /\ _fallback_images = EmptyDict
    /\ image_calls = << >>
    /\ calls = s.calls
    /\ signals = s.signals
    /\ last = [op |-> "bind_datasource", args |-> << >>, ret |-> "None",
               raised |-> "none", params |-> EmptyDict]
    /\ steps = 0

Init ==
    \E ds \in DataSources, hc \in BOOLEAN :
        Constructed(bind_datasource(Blank(ds, hc), ds))

\* The paths of the resident rows, by position.
RECURSIVE Positions(_, _, _)
Positions(s, children, prefix) ==
    UNION {{prefix \o << k - 1 >>}
           \cup Positions(s, s.nodes[children[k]].children, prefix \o << k - 1 >>) :
           k \in 1..Len(children)}

Paths == Positions(Cur, rows, << >>)

\* The rows the tree view shows: the roots and the children of expanded rows.
Visible(path) == \A k \in 1..(Len(path) - 1) : SubSeq(path, 1, k) \in gtk_expanded

VisibleRanges == {<< >>, << << 0 >>, << 0 >> >>, << << 0 >>, << 1 >> >>}

\* DataGridModel.refresh()
Refresh == Apply(refresh(Cur), "refresh", << >>)

\* DataGridModel.add_rows(parent_node)
AddRows == \E parent_node \in {None} \cup (1..Len(nodes)) :
    Apply(add_rows(Cur, parent_node), "add_rows", << parent_node >>)

\* DataGridModel.set_value(itr, 0, value, emit_event)
SetValue == \E path \in Paths, b \in BOOLEAN, emit_event \in BOOLEAN :
    Apply(set_value(Cur, path, SelectedCol, PyBool(b), emit_event), "set_value",
          << path, SelectedCol, PyBool(b), emit_event >>)

\* The toolkit asks whether a row it shows has children.
IterHasChild == \E path \in Paths :
    /\ view = "tree_view" /\ Visible(path)
    /\ Apply(on_iter_has_child(Cur, path).s, "on_iter_has_child", << path >>)

\* The user expands a row of the tree view.
RowExpanded == \E path \in Paths :
    /\ view = "tree_view" /\ Visible(path) /\ path \notin gtk_expanded
    /\ on_iter_has_child(Cur, path).value
    /\ Apply(ExpandRow(Cur, path), "expand_row", << path >>)

\* The user collapses a row of the tree view.
RowCollapsed == \E path \in gtk_expanded :
    /\ view = "tree_view"
    /\ Apply(CollapseRow(Cur, path), "collapse_row", << path >>)

\* The options popup emits view-changed.
ViewChanged == \E new_view \in {VIEW_TREE, VIEW_FLAT, VIEW_ICON} :
    Apply(on_popup_view_changed(Cur, new_view), "on_popup_view_changed", << new_view >>)

\* The selection of the attribute filter on `name` changes.
FilterChanged == \E value \in {NO_FILTER_OPTION, 0, 1} :
    Apply(on_filter_changed(Cur, "name", value), "on_filter_changed", << "name", value >>)

\* The user clicks the header checkbox of the tree view.
SelectAllClicked ==
    /\ view = "tree_view" /\ check_btn_toggle_all # << >>
    /\ Apply(on_select_all_column_clicked(Cur, ~ check_btn_toggle_all[1].active),
             "on_select_all_column_clicked", << ~ check_btn_toggle_all[1].active >>)

\* The user clicks the checkbox cell of a row of the tree view.
Toggle == \E path \in Paths :
    /\ view = "tree_view" /\ has_checkboxes /\ Visible(path)
    /\ Apply(on_toggle(Cur, path, SelectedCol), "on_toggle", << path, SelectedCol >>)

\* The user toggles the checkbox of an item of the icon view.
IconToggle == \E path \in Paths :
    /\ view = "icon_view" /\ has_checkboxes /\ Len(path) = 1
    /\ Apply(_toggle_path(Cur, path), "_toggle_path", << path >>)

\* The vertical scrollbar moves.
Scrolled == \E range \in VisibleRanges, scrolled_to_bottom \in BOOLEAN :
    /\ view = "icon_view" \/ range = << >>
    /\ Apply(on_scrolled(Cur, range, scrolled_to_bottom), "on_scrolled",
             << range, scrolled_to_bottom >>)

Next ==
    \/ Refresh
    \/ AddRows
    \/ SetValue
    \/ IterHasChild
    \/ RowExpanded
    \/ RowCollapsed
    \/ ViewChanged
    \/ FilterChanged
    \/ SelectAllClicked
    \/ Toggle
    \/ IconToggle
    \/ Scrolled

Spec == Init /\ [][Next]_vars

\* ------------------------------------------- specification of the controller
\* The data sources the controller is checked over: one record, and
\* beside the four columns of the layout an internal column, a hidden user
\* column and up to two date columns.
ExtraColumns ==
    LET HiddenColumn == [name |-> "__hidden", transform |-> "string", visible |-> TRUE]
        NoteColumn == [name |-> "note", transform |-> "None", visible |-> FALSE]
        CreatedColumn == [name |-> "created", transform |-> "timestamp", visible |-> TRUE]
        ModifiedColumn ==
            [name |-> "modified", transform |-> "timestamp_ms", visible |-> FALSE]
    IN {<< HiddenColumn, NoteColumn >>,
        << HiddenColumn, CreatedColumn >>,
        << HiddenColumn, NoteColumn, CreatedColumn, ModifiedColumn >>}

CtlDataSources ==
    {[n |-> n, parent |-> [i \in 1..n |-> None], selected |-> [i \in 1..n |-> 0],
      id_column_idx |-> IdCol, parent_column_idx |-> None, flat_column_idx |-> NameCol,
      total_recs |-> None, extra |-> extra, display_all |-> display_all] :
     n \in {1}, extra \in ExtraColumns, display_all \in BOOLEAN}

CtlInit ==
    \E ds \in CtlDataSources :
        Constructed(bind_datasource(Blank(ds, FALSE), ds))

\* The number of attribute filters the application adds.
MaxFilters == 2

\* The application binds another data source.
BindDatasource == \E ds \in CtlDataSources :
    Apply(bind_datasource(Cur, ds), "bind_datasource", << ds >>)

\* The user picks a start date (a day), or clears it.
StartDateChanged == \E text \in {<< >>, << 1 >>} :
    /\ container.date_range /\ date_start.sensitive /\ text # date_start.text
    /\ Apply(on_date_change([Cur EXCEPT !.date_start.text = text]), "on_date_change",
             << "start", text >>)

\* The user picks an end date.
EndDateChanged == \E text \in {<< >>, << 1 >>} :
    /\ container.date_range /\ date_end.sensitive /\ text # date_end.text
    /\ Apply(on_date_change([Cur EXCEPT !.date_end.text = text]), "on_date_change",
             << "end", text >>)

\* The user selects another date column.
DateColumnChanged == \E i \in 0..(Len(container.combobox_date_columns.model) - 1) :
    /\ container.combobox_date_columns.visible
    /\ i # container.combobox_date_columns.active
    /\ Apply(on_date_change([Cur EXCEPT !.container.combobox_date_columns.active = i]),
             "on_date_change", << "column", i >>)

\* The application adds an attribute filter.
AddOptionsFilter == \E attr \in {"name", "note", "missing"}, options \in {<< 0, None >>},
                       add_empty_option \in BOOLEAN :
    /\ Len(container.extra_filters) < MaxFilters
    /\ Apply(add_options_filter(Cur, attr, options, add_empty_option),
             "add_options_filter", << attr, options, add_empty_option >>)

\* The user selects another option of an attribute filter.
OptionSelected == \E k \in 1..Len(container.extra_filters) :
    \E j \in 0..(Len(container.extra_filters[k].model) - 1) :
        /\ j # container.extra_filters[k].active
        /\ Apply(on_filter_changed([Cur EXCEPT !.container.extra_filters[k].active = j],
                                   container.extra_filters[k].attr,
                                   container.extra_filters[k].model[j + 1]),
                 "on_filter_changed",
                 << container.extra_filters[k].attr,
                    container.extra_filters[k].model[j + 1] >>)

\* The user types in the search entry, or activates it.
SearchClicked == \E text \in {"", "a"} :
    Apply(on_search_clicked([Cur EXCEPT !.container.entry_search = text]),
          "on_search_clicked", << text >>)

\* The user flips a switch of the options popup.
ColumnVisibilityChanged == \E k \in 1..Len(_get_visibility_options(Cur)) :
    Apply(on_popup_column_visibility_changed(Cur, _get_visibility_options(Cur)[k],
              _get_visibility_options(Cur)[k] \notin display_columns),
          "on_popup_column_visibility_changed",
          << _get_visibility_options(Cur)[k],
             _get_visibility_options(Cur)[k] \notin display_columns >>)

\* The user picks a view in the options popup.
PopupViewChanged == \E new_view \in {VIEW_TREE, VIEW_ICON} :
    Apply(on_popup_view_changed(Cur, new_view), "on_popup_view_changed", << new_view >>)

CtlNext ==
    \/ BindDatasource
    \/ StartDateChanged
    \/ EndDateChanged
    \/ DateColumnChanged
    \/ AddOptionsFilter
    \/ OptionSelected
    \/ SearchClicked
    \/ ColumnVisibilityChanged
    \/ PopupViewChanged

CtlSpec == CtlInit /\ [][CtlNext]_vars

\* ---------------------------------------------- specification of the lookup
\* DataGridModel.get_row_by_id(row_id, load_rows); the handle of the row is
\* the value returned.
GetRowById == \E row_id \in 1..MaxRecs, load_rows \in BOOLEAN :
    Apply([get_row_by_id(Cur, row_id, load_rows).s EXCEPT
              !.ret = get_row_by_id(Cur, row_id, load_rows).row],
          "get_row_by_id", << row_id, load_rows >>)

\* DataGridModel.iter_rows(load_rows), consumed to its end; the rows yielded
\* are the value returned.
IterateRows == \E load_rows \in BOOLEAN :
    Apply([IterRows(Cur, load_rows).s EXCEPT !.ret = IterRows(Cur, load_rows).yielded],
          "iter_rows", << load_rows >>)

LookupNext ==
    \/ GetRowById
    \/ IterateRows
    \/ AddRows
    \/ ViewChanged
    \/ FilterChanged

LookupSpec == Init /\ [][LookupNext]_vars

\* --------------------------------------- specification of the header clicks
\* The user clicks the header of a column of the tree view.
TvcolClicked == \E k \in 1..Len(tree_columns) :
    /\ view = "tree_view"
    /\ Apply(on_tvcol_clicked(Cur, tree_columns[k]), "on_tvcol_clicked",
             << tree_columns[k] >>)

SortNext == TvcolClicked \/ PopupViewChanged \/ SearchClicked \/ ColumnVisibilityChanged

SortSpec == CtlInit /\ [][SortNext]_vars

\* ------------------------------------ specification of the lookup by path
\* The number of records of the hierarchies paths are resolved in.
PathRecs == 3

\* A hierarchical data source of PathRecs records, bound.
PathInit ==
    \E ds \in {[n |-> PathRecs, parent |-> f, selected |-> [i \in 1..PathRecs |-> 0],
                 id_column_idx |-> IdCol, parent_column_idx |-> ParentCol,
                 flat_column_idx |-> None, total_recs |-> None, extra |-> << >>,
                 display_all |-> FALSE] : f \in ParentMaps(PathRecs, ParentCol)} :
        Constructed(bind_datasource(Blank(ds, FALSE), ds))

\* DataGridModel.add_rows(): the next page of roots, as scrolling asks for it.
AddRootRows == Apply(add_rows(Cur, None), "add_rows", << None >>)

\* DataGridModel._get_row_by_path(iter_) of the path of a resident row; the
\* handle of the row is the value returned.
GetRowByPath == \E path \in Paths :
    Apply([_get_row_by_path(Cur, path).s EXCEPT !.ret = _get_row_by_path(Cur, path).row],
          "_get_row_by_path", << path >>)

PathNext == GetRowByPath \/ AddRootRows \/ ViewChanged \/ FilterChanged

PathSpec == PathInit /\ [][PathNext]_vars

\* ------------------------------------- specification of the tree view events
\* The user clicks the Expand-All button.
ExpandAllClicked ==
    /\ view = "tree_view" /\ expand_all_btn
    /\ Apply(expand_all(Cur), "expand_all", << >>)

\* The user clicks the Collapse-All button.
CollapseAllClicked ==
    /\ view = "tree_view" /\ collapse_all_btn
    /\ Apply(collapse_all(Cur), "collapse_all", << >>)

\* The events the toolkit and the user send to the bound grid.
ViewNext ==
    \/ IterHasChild
    \/ RowExpanded
    \/ RowCollapsed
    \/ ExpandAllClicked
    \/ CollapseAllClicked
    \/ ViewChanged
    \/ FilterChanged
    \/ SelectAllClicked
    \/ Toggle
    \/ IconToggle
    \/ Scrolled

\* The grid is bound to a data source of up to MaxRecs records, or to a
\* hierarchy of PathRecs records.
ViewInit == Init \/ PathInit

ViewSpec == ViewInit /\ [][ViewNext]_vars

\* The same events and the clicks on the column headers.
ExpandNext == ViewNext \/ TvcolClicked

ExpandSpec == ViewInit /\ [][ExpandNext]_vars

\* ----------------------------------- specification of the iteration, by rows
\* A caller obtains the generator of iter_rows(load_rows); nothing runs yet.
StartIter == \E load_rows \in BOOLEAN :
    /\ ~ iter.running
    /\ steps < MaxSteps
    /\ steps' = steps + 1
    /\ iter' = NewIter(load_rows)
    /\ last' = [op |-> "iter_rows", args |-> << load_rows >>, ret |-> "generator",
                raised |-> "none", params |-> active_params]
    /\ UNCHANGED << grid_vars, drop_shadows_cache, blurs, best_width, image_vars >>

\* The caller asks the generator for its next row, as the for loop of
\* get_row_by_id does until the generator is exhausted; the row it gets is
\* the last of iter.yielded.
NextRow ==
    /\ iter.running
    /\ iter' = Advance(Cur, iter).iter
    /\ Assign([Advance(Cur, iter).s EXCEPT
                  !.ret = IF Advance(Cur, iter).iter.running THEN "row" ELSE "None",
                  !.raised = IF @ = "none" /\ ~ Advance(Cur, iter).iter.running
                             THEN "StopIteration" ELSE @],
              "next", << iter.load_rows >>)
    /\ UNCHANGED steps

IterNext == StartIter \/ NextRow \/ AddRootRows \/ ViewChanged \/ FilterChanged

\* The caller goes on asking until the generator ends.
IterSpec == Init /\ [][IterNext]_vars /\ WF_vars(NextRow)

\* ------------------------------------------- specification of add_drop_shadow
\* The module after import: an empty cache; the grid plays no part.
ShadowInit ==
    \E ds \in {d \in DataSources : d.n = 0 /\ d.id_column_idx = IdCol
                                      /\ d.parent_column_idx = None
                                      /\ d.flat_column_idx = None} :
        Constructed(bind_datasource(Blank(ds, FALSE), ds))

\* A call of add_drop_shadow: images of two sizes, no or three blur
\* iterations, the default border and colour, three offsets.
AddDropShadow ==
    \E image \in {<< 1, 1 >>, << 2, 1 >>}, iterations \in {0, 3}, border_size \in {2},
       offset \in {<< 2, 2 >>, << 3, 2 >>, << -2, 2 >>}, shadow_color \in {"black"} :
        /\ steps < MaxSteps
        /\ steps' = steps + 1
        /\ drop_shadows_cache' =
              add_drop_shadow([cache |-> drop_shadows_cache, blurs |-> blurs], image,
                              iterations, border_size, offset, shadow_color).cache
        /\ blurs' =
              add_drop_shadow([cache |-> drop_shadows_cache, blurs |-> blurs], image,
                              iterations, border_size, offset, shadow_color).blurs
        /\ last' = [op |-> "add_drop_shadow",
                    args |-> << image, iterations, border_size, offset, shadow_color >>,
                    ret |-> "shadow", raised |-> "none", params |-> EmptyDict]
        /\ UNCHANGED << grid_vars, best_width, iter, image_vars >>

ShadowSpec == ShadowInit /\ [][AddDropShadow]_vars

\* ----------------------------------------- specification of get_icon_for_file
\* A call of get_icon_for_file on a directory or a file, whose mimetype is
\* guessed or not, under an icon theme that has icons for some of the names.
GetIconForFile ==
    \E isdir \in BOOLEAN,
       guessed \in {<< >>, << "text", "plain" >>, << "application", "pdf" >>},
       theme \in SUBSET {<< "unknown" >>, << "folder" >>, << "text", "x", "generic" >>,
                         << "application", "x", "pdf" >>, << "pdf" >>} :
        /\ last' = [op |-> "get_icon_for_file", args |-> << theme, isdir, guessed >>,
                    ret |-> get_icon_for_file(theme, isdir, guessed).ret,
                    raised |-> get_icon_for_file(theme, isdir, guessed).raised,
                    params |-> EmptyDict]
        /\ UNCHANGED << grid_vars, drop_shadows_cache, blurs, best_width, iter, image_vars,
                        steps >>

IconSpec == ShadowInit /\ [][GetIconForFile]_vars

\* ---------------------------------- specification of _get_best_column_width
\* A call of _get_best_column_width: the pixel widths of the sampled values
\* and of the label are those the toolkit measures.
GetBestColumnWidth ==
    \E lengths \in SUBSET {10, 20, 39, 40, 45, 400, 500},
       label_width \in {30, 40, 41, 60, 390} :
        /\ best_width' = [lengths |-> lengths, label_width |-> label_width,
                          width |-> _get_best_column_width(lengths, label_width)]
        /\ UNCHANGED << grid_vars, drop_shadows_cache, blurs, iter, image_vars, last,
                        steps >>

WidthSpec == ShadowInit /\ [][GetBestColumnWidth]_vars

\* ------------------------------ specification of the image value formatting
\* The image state of the model.
ImageModel ==
    [image_max_size |-> image_max_size, image_draw_border |-> image_draw_border,
     _invisible_images |-> _invisible_images, _fallback_images |-> _fallback_images,
     image_calls |-> image_calls]

ImageValues == {NoValue, << IMAGE_PREFIX, "a.png" >>, << "a.png" >>}

\* A lookup of a value of an image column: get_formatted_value(value, column,
\* visible).
GetFormattedValue == \E value \in ImageValues, visible \in BOOLEAN :
    /\ steps < MaxSteps
    /\ steps' = steps + 1
    /\ _invisible_images' = get_formatted_image(ImageModel, value, visible).m._invisible_images
    /\ _fallback_images' = get_formatted_image(ImageModel, value, visible).m._fallback_images
    /\ image_calls' = get_formatted_image(ImageModel, value, visible).m.image_calls
    /\ last' = [op |-> "get_formatted_value", args |-> << value, visible >>,
                ret |-> get_formatted_image(ImageModel, value, visible).ret,
                raised |-> "none", params |-> EmptyDict]
    /\ UNCHANGED << grid_vars, drop_shadows_cache, blurs, best_width, iter >>

\* The image_max_size and image_draw_border properties of the model are set.
SetImageProperties == \E size \in {24, 100}, draw_border \in BOOLEAN :
    /\ << size, draw_border >> # << image_max_size, image_draw_border >>
    /\ steps < MaxSteps
    /\ steps' = steps + 1
    /\ image_max_size' = size
    /\ image_draw_border' = draw_border
    /\ last' = [op |-> "set_property", args |-> << size, draw_border >>,
                ret |-> [image |-> "None", value |-> NoValue, size |-> size,
                         draw_border |-> draw_border],
                raised |-> "none", params |-> EmptyDict]
    /\ UNCHANGED << data_source, active_params, rows, nodes, row_id_mapper, id_column_idx,
                    parent_column_idx, flat_column_idx, total_recs, visible_range, view,
                    has_checkboxes, check_btn_toggle_all, expanded_ids, expandable_ids,
                    all_expanded, block_all_expanded, gtk_expanded, expand_all_btn,
                    collapse_all_btn, display_columns, tree_columns, active_sort_column,
                    active_sort_column_order, extra_filter_widgets, container,
                    date_start, date_end, calls, signals,
                    drop_shadows_cache, blurs, best_width, iter, image_vars >>

ImageNext == GetFormattedValue \/ SetImageProperties

ImageSpec == ShadowInit /\ [][ImageNext]_vars

\* ------------------------------------ specification of the writes by id type
\* Data sources without a parent column whose ids are ints, strs of digits
\* or other strs.
IdSources ==
    {[n |-> n, parent |-> [i \in 1..n |-> None], selected |-> [i \in 1..n |-> 0],
      id_column_idx |-> IdCol, parent_column_idx |-> None, flat_column_idx |-> fc,
      total_recs |-> None, extra |-> << >>, display_all |-> FALSE, id_type |-> id_type] :
     n \in 1..MaxRecs, fc \in {NameCol, None}, id_type \in {"int", "digits", "text"}}

IdInit == \E ds \in IdSources, hc \in BOOLEAN :
    Constructed(bind_datasource(Blank(ds, hc), ds))

IdNext ==
    \/ SetValue
    \/ Toggle
    \/ IconToggle
    \/ AddRootRows
    \/ ViewChanged
    \/ FilterChanged

IdSpec == IdInit /\ [][IdNext]_vars

\* ------------------------------- specification of the navigation primitives
\* The toolkit asks for the first child of a row, or of the root.
OnIterChildren == \E rowref \in Paths \cup {NonePath} :
    Apply([on_iter_children(Cur, rowref).s EXCEPT
              !.ret = on_iter_children(Cur, rowref).value],
          "on_iter_children", << rowref >>)

\* The toolkit asks for the n-th child of a row, or of the root.
OnIterNthChild == \E parent \in Paths \cup {NonePath}, n \in -1..MaxRecs :
    Apply([on_iter_nth_child(Cur, parent, n).s EXCEPT
              !.ret = on_iter_nth_child(Cur, parent, n).value],
          "on_iter_nth_child", << parent, n >>)

\* The toolkit asks for the row after a row.
OnIterNext == \E rowref \in Paths :
    Apply([on_iter_next(Cur, rowref).s EXCEPT !.ret = on_iter_next(Cur, rowref).value],
          "on_iter_next", << rowref >>)

\* The toolkit asks for the parent of a row.
OnIterParent == \E child \in Paths :
    Apply([Cur EXCEPT !.ret = on_iter_parent(child)], "on_iter_parent", << child >>)

NavNext ==
    \/ OnIterChildren
    \/ OnIterNthChild
    \/ OnIterNext
    \/ OnIterParent
    \/ AddRootRows
    \/ ViewChanged
    \/ FilterChanged

NavSpec == Init /\ [][NavNext]_vars

\* ------------------------------------- specification of the icon view events
\* The items of the icon view: the root rows of the model.
ItemPaths == {<< i >> : i \in 0..(Len(rows) - 1)}

\* get_selected_items(): no item, one item or two.
Selections ==
    {<< >>} \cup {<< p >> : p \in ItemPaths}
            \cup {pq \in ItemPaths \X ItemPaths : pq[1] # pq[2]}

\* A key is pressed over the icon view.
KeyPressEvent == \E space_pressed \in BOOLEAN, selections \in Selections :
    /\ view = "icon_view"
    /\ Apply(on_key_press_event(Cur, space_pressed, selections), "on_key_press_event",
             << space_pressed, selections >>)

\* A pointer button is released over the icon view.
ButtonReleaseEvent == \E path \in {<< >>} \cup ItemPaths, intersects \in BOOLEAN :
    /\ view = "icon_view"
    /\ path = << >> => ~ intersects
    /\ Apply(on_button_release_event(Cur, path, intersects), "on_button_release_event",
             << path, intersects >>)

ToggleNext ==
    \/ KeyPressEvent
    \/ ButtonReleaseEvent
    \/ ViewChanged
    \/ FilterChanged
    \/ Scrolled

ToggleSpec == Init /\ [][ToggleNext]_vars

\* ------------------------------------------------------------------ claims
\* The handles of the resident rows: those iter_rows() reaches from the roots.
Resident == {iter_rows(Cur)[k] : k \in 1..Len(iter_rows(Cur))}

\* The id of a resident row.
IdOf(h) == nodes[h].data[id_column_idx]

\* The names of a list of signals / the operations of a list of calls.
Emitted(name) == {k \in 1..Len(signals) : signals[k].name = name}
Called(op) == {k \in 1..Len(calls) : calls[k].op = op}

\* C1: after a model refresh, with or without an id column, every root row's
\* path is the 1-tuple of its index, total_recs is the count the data source
\* reported for the load, and every root row with an id is in the row-id
\* index, mapped to that row.
C1_RefreshRoots ==
    (last.op = "refresh" /\ last.raised = "none") =>
        /\ \A i \in 1..Len(rows) : nodes[rows[i]].path = << i - 1 >>
        /\ total_recs = load(data_source, calls[1].params).total_recs
        /\ id_column_idx # None =>
              \A i \in 1..Len(rows) :
                  /\ IdOf(rows[i]) \in DOMAIN row_id_mapper
                  /\ row_id_mapper[IdOf(rows[i])] = rows[i]

\* C2: every resident row is the row its path leads to from the roots by
\* child position.
C2_PathsLeadToRows ==
    \A h \in Resident : NodeAt(Cur, rows, nodes[h].path) = h

\* The rows the step appended to the hierarchy.
Appended == (Len(nodes) + 1)..Len(nodes')

\* C3: with an id column, every entry of the row-id index maps its key to a
\* resident row whose id is the key (so no entry outlives a refresh), and
\* the id of every resident row is a key of the index; after add_rows the
\* index maps the id of every row it appended to a row appended by the same
\* call: to that very row when the call made one load, and to the row of a
\* later load when looking up a path made add_rows load the children of a
\* row on the way.
C3_IndexSound ==
    /\ [](id_column_idx # None =>
            /\ \A k \in DOMAIN row_id_mapper :
                  /\ row_id_mapper[k] \in Resident
                  /\ IdOf(row_id_mapper[k]) = k
            /\ \A h \in Resident : IdOf(h) \in DOMAIN row_id_mapper)
    /\ [][(last'.op = "add_rows" /\ id_column_idx' # None) =>
            \A h \in Appended :
                /\ nodes'[h].data[id_column_idx'] \in DOMAIN row_id_mapper'
                /\ row_id_mapper'[nodes'[h].data[id_column_idx']] \in Appended
                /\ Cardinality(Called("load")') = 1 =>
                      row_id_mapper'[nodes'[h].data[id_column_idx']] = h]_vars

\* add_rows appended children to a row, and the index holds them next to the
\* roots the refresh registered.
C3_Witness ==
    /\ id_column_idx # None
    /\ last.op = "add_rows" /\ last.args # << None >> /\ last.ret = "True"
    /\ Cardinality(DOMAIN row_id_mapper) >= 2
    /\ \E k \in DOMAIN row_id_mapper : Len(nodes[row_id_mapper[k]].path) = 2

\* The handlers that refresh the model, and the load their refresh issued:
\* the first load of the handler.
Refreshing ==
    {"refresh", "bind_datasource", "on_popup_view_changed", "on_filter_changed",
     "on_select_all_column_clicked"}
RefreshLoad == calls[CHOOSE k \in Called("load") : \A j \in Called("load") : k <= j]

\* C4: the load of a model refresh carries neither page nor parent_id, and
\* every other query parameter as it was before the refresh; the same holds
\* of the refresh inside every handler that refreshes the model.
C4_RefreshLoadParams ==
    /\ [][last'.op = "refresh" =>
            /\ Len(calls') = 1 /\ calls'[1].op = "load"
            /\ DOMAIN calls'[1].params = DOMAIN active_params \ {"page", "parent_id"}
            /\ \A k \in DOMAIN calls'[1].params :
                  calls'[1].params[k] = active_params[k]]_vars
    /\ []((last.op \in Refreshing /\ last.raised = "none") =>
            /\ Called("load") # {}
            /\ DOMAIN RefreshLoad.params \cap {"page", "parent_id"} = {})

\* A refresh that started with page, parent_id and where among the parameters.
C4_Witness ==
    /\ last.op = "refresh"
    /\ {"page", "parent_id", "where", "flat"} \subseteq DOMAIN last.params
    /\ Len(calls) = 1

\* C5: with a parent column and flat off, add_rows without a parent returns
\* False, calls the data source not at all and leaves the query parameters,
\* the root collection and the row-id index as they were.
C5_HierarchicalRootAddIsNoOp ==
    [][(last'.op = "add_rows" /\ last'.args = << None >>
          /\ parent_column_idx # None /\ ~ Get(active_params, "flat", FALSE)) =>
          /\ last'.ret = "False" /\ last'.raised = "none"
          /\ calls' = << >>
          /\ active_params' = active_params
          /\ rows' = rows /\ nodes' = nodes
          /\ row_id_mapper' = row_id_mapper]_vars

\* add_rows() on hierarchical data whose parameters hold a parent_id.
C5_Witness ==
    /\ last.op = "add_rows" /\ last.args = << None >> /\ last.ret = "False"
    /\ parent_column_idx # None /\ ~ Get(last.params, "flat", FALSE)
    /\ "parent_id" \in DOMAIN last.params
    /\ rows # << >>

\* C6: when the load of add_rows returns no rows, add_rows returns False and
\* leaves the root collection, every row's children and the row-id index as
\* they were, and no row-inserted is emitted.
C6_EmptyLoadAddsNothing ==
    [][(last'.op = "add_rows" /\ calls' # << >>
          /\ Len(load(data_source, calls'[1].params).rows) = 0) =>
          /\ last'.ret = "False" /\ last'.raised = "none"
          /\ rows' = rows /\ nodes' = nodes
          /\ row_id_mapper' = row_id_mapper
          /\ \A k \in 1..Len(signals') : signals'[k].name # "row-inserted"]_vars

\* add_rows for a specific parent found nothing to load.
C6_Witness ==
    /\ last.op = "add_rows" /\ last.args # << None >> /\ last.ret = "False"
    /\ Len(calls) = 1 /\ calls[1].op = "load"
    /\ Len(load(data_source, calls[1].params).rows) = 0
    /\ rows # << >>

\* The row-inserted notifications of the last handler, in order.
RowInserted == SelectSeq(signals, LAMBDA x : x.name = "row-inserted")

\* C7 (as stated): row-inserted is emitted only when add_rows paginates the
\* roots of non-hierarchical data; rows appended as children of a specific
\* parent are never notified, in any mode.
C7_InsertedOnlyForRootPages ==
    [][last'.op = "add_rows" =>
          (RowInserted' # << >> =>
              /\ last'.args = << None >>
              /\ ~ (parent_column_idx # None /\ ~ Get(active_params, "flat", FALSE)))]_vars

\* The notifications of the rows the step appended, in the order of the
\* arena.
InsertedForAppended ==
    [i \in 1..(Len(nodes') - Len(nodes)) |->
        Signal("row-inserted", nodes'[Len(nodes) + i].path)]

\* How many of the notifications `sigs` are the notification x.
Count(sigs, x) == Cardinality({k \in 1..Len(sigs) : sigs[k] = x})

\* C7 (amended): when hierarchical display is active (a parent column and
\* flat off) add_rows emits no row-inserted; otherwise it emits row-inserted
\* for the rows it appended, for the roots and for the children of a
\* specific parent alike: never more for a path than rows appended at that
\* path, one for each appended row when it returns, and in the order of
\* appending when it made one load.
C7_InsertedIffNotTree ==
    [][last'.op = "add_rows" =>
          IF parent_column_idx # None /\ ~ Get(active_params, "flat", FALSE)
          THEN RowInserted' = << >>
          ELSE /\ \A k \in 1..Len(RowInserted') :
                    Count(RowInserted', RowInserted'[k])
                        <= Count(InsertedForAppended, RowInserted'[k])
               /\ last'.raised = "none" =>
                    /\ Len(RowInserted') = Len(InsertedForAppended)
                    /\ Cardinality(Called("load")') = 1 =>
                          RowInserted' = InsertedForAppended]_vars

\* add_rows appended children to a specific parent and notified the view.
C7_Witness ==
    /\ last.op = "add_rows" /\ last.args # << None >> /\ last.ret = "True"
    /\ RowInserted # << >>

\* C8 (as stated): with an id column, set_value of column 0 of a resident
\* row to b stores b in the row, makes exactly one update call, carrying
\* {__selected: b} and the id of that row only, and a lookup of the row's
\* column 0 then gives the plain boolean b.
C8_SetSelectedWritesThrough ==
    [][(last'.op = "set_value" /\ id_column_idx # None) =>
          /\ last'.raised = "none"
          /\ nodes'[NodeAt(Cur', rows', last'.args[1])].data[SelectedCol] = last'.args[3]
          /\ Cardinality(Called("update")') = 1
          /\ \A k \in Called("update")' :
                /\ calls'[k].params = Put(EmptyDict, "__selected", last'.args[3])
                /\ calls'[k].ids =
                      << nodes'[NodeAt(Cur', rows', last'.args[1])].data[id_column_idx] >>
          /\ on_get_value(Cur', last'.args[1], SelectedCol).value = (last'.args[3] = 1)]_vars

\* C9: a click on the header checkbox asks the data source for the ids with
\* the `where` entry alone (nothing when there is none), then makes one
\* update call that writes the header's value to __selected of exactly those
\* ids, and only then reloads.
C9_SelectAllUsesWhereOnly ==
    [][last'.op = "on_select_all_column_clicked" =>
          /\ Len(calls') >= 3
          /\ calls'[1].op = "get_all_record_ids"
          /\ DOMAIN calls'[1].params = DOMAIN active_params \cap {"where"}
          /\ \A k \in DOMAIN calls'[1].params : calls'[1].params[k] = active_params[k]
          /\ calls'[2] = Call("update", Put(EmptyDict, "__selected", PyBool(last'.args[1])),
                              get_all_record_ids(data_source, calls'[1].params))
          /\ Called("update")' = {2}
          /\ calls'[3].op = "load"
          /\ \A i \in 1..data_source.n :
                data_source'.selected[i] =
                    IF \E k \in 1..Len(calls'[2].ids) : calls'[2].ids[k] = i
                    THEN PyBool(last'.args[1]) ELSE data_source.selected[i]]_vars

\* Select-all under a filter that leaves some records out.
C9_Witness ==
    /\ last.op = "on_select_all_column_clicked" /\ last.args = << TRUE >>
    /\ "where" \in DOMAIN last.params
    /\ calls[2].ids # << >>
    /\ \E i \in 1..data_source.n : data_source.selected[i] = 0

\* C10: after view-changed, Icon gives the icon view, image size 100 and the
\* decoration; Tree and Flat give the tree view, image size 24 and no
\* decoration; and `flat` is on iff Flat or Icon was asked for and the model
\* has a flat column.
C10_ViewChanged ==
    last.op = "on_popup_view_changed" =>
        /\ last.args[1] = VIEW_ICON =>
              view = "icon_view" /\ image_max_size = 100 /\ image_draw_border
        /\ last.args[1] \in {VIEW_TREE, VIEW_FLAT} =>
              view = "tree_view" /\ image_max_size = 24 /\ ~ image_draw_border
        /\ active_params["flat"] <=>
              (last.args[1] \in {VIEW_FLAT, VIEW_ICON} /\ flat_column_idx # None)

\* Flat was asked for on a model without a flat column.
C10_Witness ==
    /\ last.op = "on_popup_view_changed" /\ last.args = << VIEW_FLAT >>
    /\ flat_column_idx = None /\ ~ active_params["flat"]
    /\ view = "tree_view" /\ rows # << >>

\* The controller, model and widgets as a handler leaves them, without the
\* record of its calls, notifications, return value and exception.
StateOf(s) == [s EXCEPT !.calls = << >>, !.signals = << >>, !.ret = "None",
                        !.raised = "none"]

\* The data sources a controller may be bound to next.
Rebindable == {data_source} \cup {ds \in DataSources : ds.id_column_idx # None}

\* C11: from every reachable state, binding a data source and binding it
\* again leaves the controller, the model (query parameters, display
\* columns, hierarchy, index) and the date controls as binding it once does.
C11_BindIdempotent ==
    \A ds \in Rebindable :
        StateOf(bind_datasource(StateOf(bind_datasource(Cur, ds)), ds))
            = StateOf(bind_datasource(Cur, ds))

\* The `where` mapping now, and before the handler `last` records.
WhereNow == Get(active_params, "where", EmptyDict)
WhereBefore == Get(last.params, "where", EmptyDict)

\* The clauses of `where` on the keys outside `keys` are those from before the
\* handler.
OthersUnchanged(keys) ==
    /\ DOMAIN WhereNow \ keys = DOMAIN WhereBefore \ keys
    /\ \A k \in DOMAIN WhereNow \ keys : WhereNow[k] = WhereBefore[k]

\* The range clause the date entries and the selected date column ask for.
RangeInstalled(column) ==
    /\ column \in DOMAIN WhereNow
    /\ WhereNow[column].operator = "range"
    /\ WhereNow[column].param[1] =
          (IF date_start.text = << >> THEN Timestamp(0, 0)
           ELSE Timestamp(date_start.text[1], 0))
    /\ WhereNow[column].param[2] =
          (IF date_end.text = << >> THEN Timestamp(24855, 13547)
           ELSE Timestamp(date_end.text[1], 23 * 3600 + 59 * 60))

\* C12: after every date-change event `where` holds the range clause
\* (start, end) on the selected date column and on no other date column of
\* the combo, start being 0 for an empty start date and end 2147485547 for an
\* empty end date, and the clauses on the other columns are unchanged.
C12_DateRangeOnSelected ==
    last.op = "on_date_change" =>
        /\ container.combobox_date_columns.active >= 0
        /\ RangeInstalled(container.combobox_date_columns.model[
                              container.combobox_date_columns.active + 1])
        /\ DOMAIN WhereNow \cap remove_columns(Cur)
              = {container.combobox_date_columns.model[
                    container.combobox_date_columns.active + 1]}
        /\ OthersUnchanged(remove_columns(Cur))

\* C13: after a selection change on the attribute filter of column c, `where`
\* has no entry for c if the selected value is the no-filter sentinel, the
\* entry {operator 'is', param None} if it is None, and {operator '=', param
\* value} otherwise; the entries of every other column are unchanged.
C13_FilterClause ==
    last.op = "on_filter_changed" =>
        /\ last.args[2] = NO_FILTER_OPTION => last.args[1] \notin DOMAIN WhereNow
        /\ last.args[2] = None =>
              /\ last.args[1] \in DOMAIN WhereNow
              /\ WhereNow[last.args[1]] = [operator |-> "is", param |-> None]
        /\ last.args[2] \notin {NO_FILTER_OPTION, None} =>
              /\ last.args[1] \in DOMAIN WhereNow
              /\ WhereNow[last.args[1]] = [operator |-> "=", param |-> last.args[2]]
        /\ OthersUnchanged({last.args[1]})

\* None is selected on one attribute filter while another column is filtered.
C13_Witness ==
    /\ last.op = "on_filter_changed" /\ last.args[2] = None
    /\ WhereNow[last.args[1]].operator = "is"
    /\ DOMAIN WhereBefore \ {last.args[1]} # {}

\* C14: adding an attribute filter for a name that is not the name of a column
\* of the model raises an error and leaves the controller unchanged: no
\* control is registered, nothing is appended to the filters area, the query
\* parameters are untouched and no data source call is made.
C14_UnknownColumnRaises ==
    [][(/\ last'.op = "add_options_filter"
        /\ \A c \in DOMAIN ColumnsOf(data_source) :
              ColumnsOf(data_source)[c].name # last'.args[1])
       => /\ last'.raised = "ValueError"
          /\ extra_filter_widgets' = extra_filter_widgets
          /\ container'.extra_filters = container.extra_filters
          /\ active_params' = active_params
          /\ Cur' = Cur
          /\ calls' = << >>]_vars

\* An unknown column is refused on a controller that has a filter and a
\* `where` clause already.
C14_Witness ==
    /\ last.op = "add_options_filter" /\ last.args[1] = "missing"
    /\ last.raised = "ValueError"
    /\ DOMAIN extra_filter_widgets # {}
    /\ "where" \in DOMAIN active_params

\* C15: at every load the data source receives from a handler of the
\* controller the query parameters have no `where` entry or a non-empty one;
\* and a key that one _refresh_view call both removes and updates (the
\* selected date column of a date change) ends up present with the updated
\* clause.
C15_WhereAbsentOrNonEmpty ==
    /\ \A k \in 1..Len(calls) :
          calls[k].op = "load" /\ "where" \in DOMAIN calls[k].params
              => DOMAIN calls[k].params["where"] # {}
    /\ "where" \in DOMAIN active_params => DOMAIN active_params["where"] # {}
    /\ (last.op = "on_date_change" /\ last.raised = "none") =>
          /\ container.combobox_date_columns.model[
                 container.combobox_date_columns.active + 1] \in remove_columns(Cur)
          /\ RangeInstalled(container.combobox_date_columns.model[
                                container.combobox_date_columns.active + 1])
          /\ \E k \in 1..Len(calls) :
                /\ calls[k].op = "load"
                /\ Get(calls[k].params, "where", EmptyDict) = WhereNow

\* A date change replaces the range clause of the selected column, which it
\* both removes and updates, and the load receives the new clause.
C15_Witness ==
    /\ last.op = "on_date_change" /\ last.raised = "none"
    /\ \E c \in DOMAIN WhereBefore \cap DOMAIN WhereNow \cap remove_columns(Cur) :
          WhereBefore[c] # WhereNow[c]
    /\ \E k \in 1..Len(calls) : calls[k].op = "load" /\ calls[k].params = active_params

\* C16 as stated: after a search event with text t the active query
\* parameters hold, beside `where`, an entry `search` with the clause
\* {operator '=', param t}, and the column clauses of `where` are unchanged.
C16_SearchOwnParameter ==
    last.op = "on_search_clicked" =>
        /\ "search" \in DOMAIN active_params
        /\ active_params["search"] = [operator |-> "=", param |-> last.args[1]]
        /\ OthersUnchanged({"search"})

\* C16: after a search event with text t (the empty text included) the
\* `where` mapping holds under the key `search` the clause {operator '=',
\* param t}, every other clause of `where` is unchanged, and the query
\* parameters have no entry `search` of their own.
C16_SearchClauseInWhere ==
    last.op = "on_search_clicked" =>
        /\ "search" \in DOMAIN WhereNow
        /\ WhereNow["search"] = [operator |-> "=", param |-> last.args[1]]
        /\ OthersUnchanged({"search"})
        /\ "search" \notin DOMAIN active_params
        /\ container.entry_search = last.args[1]

\* The search text is cleared while a column is filtered.
C16_Witness ==
    /\ last.op = "on_search_clicked" /\ last.args[1] = ""
    /\ "search" \in DOMAIN WhereBefore /\ WhereBefore["search"].param = "a"
    /\ DOMAIN WhereNow \ {"search"} # {}

\* C17: after any sequence of binds and column-visibility events no column
\* whose name starts with `__` is in display_columns, is offered as a switch
\* by the options popup, or is built as a column of the tree view, whatever
\* its `visible` flag.
C17_NoReservedColumnShown ==
    \A i \in 1..Len(ColumnSeq(data_source)) :
        ColumnSeq(data_source)[i].name \in {"__selected", "__id", "__parent", "__hidden"} =>
            /\ ColumnSeq(data_source)[i].name \notin display_columns
            /\ \A k \in 1..Len(_get_visibility_options(Cur)) :
                  _get_visibility_options(Cur)[k] # ColumnSeq(data_source)[i].name
            /\ \A k \in 1..Len(tree_columns) :
                  tree_columns[k] # ColumnSeq(data_source)[i].name

\* A column was switched on, on a data source whose internal column
\* `__hidden` is flagged visible and which asks to display all columns.
C17_Witness ==
    /\ last.op = "on_popup_column_visibility_changed" /\ last.args[2]
    /\ \E i \in 1..Len(ColumnSeq(data_source)) :
          ColumnSeq(data_source)[i].name = "__hidden" /\ ColumnSeq(data_source)[i].visible
    /\ data_source.display_all
    /\ Len(tree_columns) >= 2
    /\ Len(_get_visibility_options(Cur)) >= 2

\* The key the claim names, of the arguments of a call: width and height of
\* the result, iterations, border, offset and colour.
KeyOfCall(args) ==
    << args[1][1] + (IF args[4][1] < 0 THEN -args[4][1] ELSE args[4][1]) + 2 * args[3],
       args[1][2] + (IF args[4][2] < 0 THEN -args[4][2] ELSE args[4][2]) + 2 * args[3],
       args[2], args[3], args[4], args[5] >>

\* C18: over any sequence of drop-shadow calls a call whose key (width,
\* height, iterations, border, offset, colour) was seen before applies no blur
\* filter and adds no cache entry, and a call with a new key computes the
\* shadow afresh, applying the blur filter `iterations` times, and adds one
\* cache entry; so the blur of each key in the cache was computed exactly once.
C18_BlurOncePerKey ==
    [][last'.op = "add_drop_shadow" =>
         /\ IF KeyOfCall(last'.args) \in DOMAIN drop_shadows_cache
            THEN blurs' = blurs /\ drop_shadows_cache' = drop_shadows_cache
            ELSE /\ blurs' = blurs \o [i \in 1..last'.args[2] |-> KeyOfCall(last'.args)]
                 /\ DOMAIN drop_shadows_cache' =
                       DOMAIN drop_shadows_cache \cup {KeyOfCall(last'.args)}
                 /\ Cardinality(DOMAIN drop_shadows_cache') =
                       Cardinality(DOMAIN drop_shadows_cache) + 1
                 /\ \A k \in DOMAIN drop_shadows_cache :
                       drop_shadows_cache'[k] = drop_shadows_cache[k]
         /\ \A k \in DOMAIN drop_shadows_cache' :
               Cardinality({i \in 1..Len(blurs') : blurs'[i] = k}) = k[3]]_vars

\* A call repeats an earlier key after a call that differed from it in the
\* offset alone, (2, 2) against (3, 2), had added its own entry.
C18_Witness ==
    /\ last.op = "add_drop_shadow" /\ last.args[2] = 3 /\ last.args[4] = << 2, 2 >>
    /\ KeyOfCall(last.args) \in DOMAIN drop_shadows_cache
    /\ KeyOfCall([last.args EXCEPT ![4] = << 3, 2 >>]) \in DOMAIN drop_shadows_cache
    /\ Cardinality(DOMAIN drop_shadows_cache) = 2
    /\ Len(blurs) = 6
    /\ steps = 3

\* C19: for every set of sampled pixel widths and every label width the best
\* width is the maximum sampled width (1 with no samples) clamped between 40
\* and 400, except that with a maximum below 40 and a label wider than 40 it
\* is the label width plus 20; samples {20, 500, 45} give 400, and samples all
\* 10 with a label of 60 give at least 80.
C19_BestWidth ==
    best_width # NoCall =>
        /\ (\A x \in best_width.lengths : x < 40) /\ best_width.label_width > 40
              => best_width.width = best_width.label_width + 20
        /\ ~ ((\A x \in best_width.lengths : x < 40) /\ best_width.label_width > 40)
              => /\ 40 <= best_width.width /\ best_width.width <= 400
                 /\ \/ best_width.width \in best_width.lengths
                    \/ best_width.width = 40 /\ \A x \in best_width.lengths : x < 40
                    \/ best_width.width = 400 /\ \E x \in best_width.lengths : x > 400
                 /\ \A x \in best_width.lengths : x <= 400 => x <= best_width.width
        /\ best_width.lengths = {20, 500, 45} => best_width.width = 400
        /\ best_width.lengths = {10} /\ best_width.label_width = 60
              => best_width.width >= 80
        /\ best_width.lengths = {} /\ best_width.label_width <= 40
              => best_width.width = 40

\* The samples are all 10 pixels wide under a label of 60: the width is 80.
C19_Witness ==
    best_width.lengths = {10} /\ best_width.label_width = 60 /\ best_width.width = 80

\* The ids of the records that loading can bring in under the query
\* parameters: every matching record on pages, or, for hierarchical display,
\* the matching roots and the matching children of the records brought in.
RECURSIVE Below(_, _, _)
Below(ds, params, ids) ==
    IF {i \in 1..ds.n : ds.parent[i] \in ids /\ Matches(ds, params, i)} \subseteq ids
    THEN ids
    ELSE Below(ds, params,
               ids \cup {i \in 1..ds.n : ds.parent[i] \in ids /\ Matches(ds, params, i)})

ReachableIds ==
    IF Hierarchical(data_source, active_params)
    THEN Below(data_source, active_params,
               {i \in 1..data_source.n :
                   data_source.parent[i] = None /\ Matches(data_source, active_params, i)})
    ELSE {i \in 1..data_source.n : Matches(data_source, active_params, i)}

\* What C20 says of a lookup on a data source with an id column, with loading
\* (load_rows) or for every lookup.
LookupAsClaimed(loading) ==
    (last'.op = "get_row_by_id" /\ id_column_idx # None /\ (loading => last'.args[2])) =>
        (/\ last'.args[1] \in DOMAIN row_id_mapper =>
               /\ last'.ret = row_id_mapper[last'.args[1]]
               /\ last'.raised = "none"
               /\ calls' = << >>
               /\ Cur' = Cur
         /\ (last'.args[1] \notin DOMAIN row_id_mapper /\ last'.raised = "none") =>
               /\ last'.ret # None =>
                     /\ last'.args[1] \in DOMAIN row_id_mapper'
                     /\ last'.ret = row_id_mapper'[last'.args[1]]
                     /\ nodes'[last'.ret].data[id_column_idx'] = last'.args[1]
                     /\ last'.ret > Len(nodes)
                     /\ \A g \in (last'.ret + 1)..Len(nodes') :
                           nodes'[g].data[ParentCol] = nodes'[last'.ret].data[ParentCol]
               /\ last'.ret = None => last'.args[1] \notin ReachableIds)

C21_NoIconReturnsNone ==
    (/\ last.op = "get_icon_for_file"
     /\ \A i \in 1..Len(icon_list(last.args[2], last.args[3])) :
           icon_list(last.args[2], last.args[3])[i] \notin last.args[1])
    => last.raised = "none" /\ last.ret = "None"

\* The rows below `children` in the hierarchy now resident, the rows of
\* `children` included.
RECURSIVE Under(_)
Under(children) ==
    UNION {{children[k]} \cup Under(nodes[children[k]].children) : k \in 1..Len(children)}

\* The position of a row in a sequence of rows, 0 if it is not in it.
PosIn(seq, h) == IF \E k \in 1..Len(seq) : seq[k] = h
                 THEN CHOOSE k \in 1..Len(seq) : seq[k] = h ELSE 0

\* The sequence yielded (the value last returned) holds every row now resident exactly once, in depth-first pre-order:
\* siblings in index order, and a row before the rows below it, which all
\* come before the row's next sibling.
YieldedInPreorder ==
    /\ {last.ret[k] : k \in 1..Len(last.ret)} = Under(rows)
    /\ Len(last.ret) = Cardinality(Under(rows))
    /\ \A c \in {rows} \cup {nodes[h].children : h \in Under(rows)} :
          \A k \in 1..(Len(c) - 1) :
              /\ PosIn(last.ret, c[k]) < PosIn(last.ret, c[k + 1])
              /\ \A d \in Under(nodes[c[k]].children) : PosIn(last.ret, d) < PosIn(last.ret, c[k + 1])
    /\ \A h \in Under(rows) :
          \A d \in Under(nodes[h].children) : PosIn(last.ret, h) < PosIn(last.ret, d)

\* C22: an iteration over the rows that runs to its end yields every
\* resident row exactly once in depth-first pre-order, the rows that child
\* loading and root pagination appended during the iteration included;
\* without load_rows it makes no data source call and changes nothing.
C22_IterRowsPreorder ==
    [][(last'.op = "iter_rows" /\ last'.raised = "none") =>
         /\ YieldedInPreorder'
         /\ ~ last'.args[1] => calls' = << >> /\ Cur' = Cur]_vars

\* An iteration with load_rows loaded the children of a row and a further
\* page of roots and yielded them.
C22_Witness ==
    /\ last.op = "iter_rows" /\ last.args[1] /\ last.raised = "none"
    /\ Len(last.ret) >= 2
    /\ Cardinality({k \in 1..Len(calls) : calls[k].op = "load"}) >= 2

\* The ids of the rows resident in the hierarchy of the model.
ResidentIds == {nodes[h].data[id_column_idx] : h \in Under(rows)}

\* The generator of a loading iteration has ended.
Exhausted == last.op = "next" /\ ~ iter.running /\ iter.load_rows

Resolved == NodeAt(Cur, rows, last'.args[1])

\* C24 as stated: resolving a path of length 1 makes no data source call, and
\* resolving a longer path to a row whose children are not loaded makes one.
C24_RootPathLoadsNothing ==
    [][last'.op = "_get_row_by_path" =>
         /\ Len(last'.args[1]) = 1 => calls' = << >>
         /\ (Len(last'.args[1]) >= 2 /\ ~ is_children_loaded(nodes[Resolved]))
               => calls' # << >>]_vars

\* C24: resolving a path of any length returns the row at the path and, when
\* the children of that row are not loaded, loads them with one load for the
\* id of the row; when they are loaded it makes no data source call and
\* changes nothing.
C24_PathLoadsChildren ==
    [][last'.op = "_get_row_by_path" =>
         /\ last'.raised = "none" /\ last'.ret = Resolved
         /\ is_children_loaded(nodes[Resolved]) => calls' = << >> /\ Cur' = Cur
         /\ ~ is_children_loaded(nodes[Resolved]) =>
               /\ Len(calls') = 1 /\ calls'[1].op = "load"
               /\ calls'[1].params["parent_id"] = nodes[Resolved].data[id_column_idx]
               /\ is_children_loaded(nodes'[Resolved])]_vars

\* A path of length 1 was resolved and the children of the root were loaded.
C24_Witness ==
    /\ last.op = "_get_row_by_path" /\ Len(last.args[1]) = 1
    /\ Len(calls) = 1 /\ nodes[last.ret].children # << >>

\* The ids of the resident rows that have children.
WithChildren ==
    {nodes[h].data[id_column_idx] : h \in {x \in Under(rows) : nodes[x].children # << >>}}

\* C25: while the tree view is shown, the all-expanded flag is set only if the
\* children of every resident row are loaded, recursively, and the expanded
\* ids are the ids of the resident rows that have children; while children are
\* not loaded and the expandable ids are not determined, the flag is not set.
C25_AllExpandedSound ==
    view = "tree_view" =>
        /\ all_expanded =>
              /\ AllLoaded(Cur, rows)
              /\ id_column_idx # None => expanded_ids = WithChildren
        /\ (~ AllLoaded(Cur, rows) /\ expandable_ids = {}) => ~ all_expanded

\* The flag is set while a row with children is expanded.
C25_Witness ==
    /\ view = "tree_view" /\ all_expanded /\ id_column_idx # None
    /\ WithChildren # {} /\ expanded_ids = WithChildren

\* The row events and the all-expanded events among the signals of the last
\* handler, by position.
RowEvents == Emitted("row-expanded") \cup Emitted("row-collapsed")

\* The last handler ran a bulk operation of the tree view: its refresh, Expand
\* all or Collapse all.
BulkOperation ==
    /\ view = "tree_view" /\ last.raised = "none"
    /\ last.op \in {"expand_all", "collapse_all", "on_popup_view_changed",
                     "on_filter_changed", "on_select_all_column_clicked"}

\* C26: a refresh of the tree view, Expand all and Collapse all emit at most
\* one all-expanded event, after their last row event and only when the flag
\* has changed; the flag they leave is the one recomputed from the state they
\* leave, and the guard flag is cleared.
C26_BulkRecomputesOnce ==
    [][BulkOperation' =>
         /\ Cardinality(Emitted("all-expanded")') <= 1
         /\ \A k \in Emitted("all-expanded")' : \A j \in RowEvents' : j < k
         /\ Emitted("all-expanded")' # {} <=> all_expanded' # all_expanded
         /\ \A k \in Emitted("all-expanded")' : signals'[k].arg = all_expanded'
         /\ all_expanded' = (/\ _get_expandable_ids(Cur').known
                             /\ expanded_ids' = _get_expandable_ids(Cur').s.expandable_ids)
         /\ ~ block_all_expanded']_vars

\* A refresh of the tree view expanded two rows again, one below the other,
\* and emitted no all-expanded event.
C26_Witness ==
    /\ BulkOperation /\ last.op = "on_filter_changed"
    /\ Cardinality(Emitted("row-expanded")) = 2
    /\ Emitted("all-expanded") = {} /\ all_expanded

\* The last handler ended with _refresh_view.
RefreshedView ==
    /\ last.raised = "none"
    /\ last.op \in {"bind_datasource", "on_popup_view_changed", "on_filter_changed"}

\* A root row has children (len(row) > 0).
RootHasChildren == \E k \in 1..Len(rows) : nodes[rows[k]].children # << >>

\* C27: the Expand-All and Collapse-All buttons are never both visible, and
\* right after _refresh_view Expand-All is visible and Collapse-All hidden if
\* the tree view is shown and a root row has children, and both are hidden
\* otherwise.
C27_ExpandCollapseButtons ==
    /\ ~ (expand_all_btn /\ collapse_all_btn)
    /\ RefreshedView =>
          IF view = "tree_view" /\ RootHasChildren
          THEN expand_all_btn /\ ~ collapse_all_btn
          ELSE ~ expand_all_btn /\ ~ collapse_all_btn

\* A refresh of the tree view expanded a root again and left Expand-All
\* visible.
C27_Witness ==
    /\ RefreshedView /\ last.op = "on_filter_changed"
    /\ view = "tree_view" /\ RootHasChildren
    /\ expand_all_btn /\ ~ collapse_all_btn

\* The last handler ended with a row-changed notification or rebuilt the
\* columns of the tree view, which has a header checkbox.
HeaderUpdated ==
    /\ view = "tree_view" /\ check_btn_toggle_all # << >> /\ last.raised = "none"
    /\ \/ last.op \in {"set_value", "on_toggle"} /\ Emitted("row-changed") # {}
       \/ last.op \in {"bind_datasource", "on_filter_changed", "on_popup_view_changed"}

\* The resident rows whose column 0 is true.
Checked == {h \in Under(rows) : Bool(nodes[h].data[SelectedCol])}

\* C28: after a row-changed notification and after a rebuild of the columns,
\* the header checkbox is active and consistent iff every loaded row is
\* checked, inactive and consistent iff none is (also when no row is loaded),
\* and inactive and inconsistent iff some but not all are.
C28_HeaderCheckbox ==
    HeaderUpdated =>
        /\ (check_btn_toggle_all[1].active /\ ~ check_btn_toggle_all[1].inconsistent)
              <=> (Under(rows) # {} /\ Checked = Under(rows))
        /\ (~ check_btn_toggle_all[1].active /\ ~ check_btn_toggle_all[1].inconsistent)
              <=> Checked = {}
        /\ (~ check_btn_toggle_all[1].active /\ check_btn_toggle_all[1].inconsistent)
              <=> (Checked # {} /\ Checked # Under(rows))

\* The loads of a model refresh among the calls of the last handler: those
\* for neither a parent nor a page.
RefreshLoads ==
    {k \in Called("load") : DOMAIN calls[k].params \cap {"parent_id", "page"} = {}}

\* C29: a click on a column header sets order_by and the active sort column
\* to the column and refreshes the view once, with that order; a click on the
\* column clicked last inverts desc, a click on another column (the first
\* click included) sets desc to false; and desc is set exactly when the
\* recorded sort order of the active column is ascending.
C29_HeaderClickSorts ==
    [][(last'.op = "on_tvcol_clicked" /\ last'.raised = "none") =>
         /\ active_params'["order_by"] = last'.args[1]
         /\ active_sort_column' = << last'.args[1] >>
         /\ Cardinality(RefreshLoads') = 1
         /\ \A k \in RefreshLoads' :
               /\ calls'[k].params["order_by"] = last'.args[1]
               /\ calls'[k].params["desc"] = active_params'["desc"]
         /\ active_params'["desc"] =
               IF active_sort_column = << last'.args[1] >> THEN ~ active_params["desc"]
               ELSE FALSE
         /\ active_params'["desc"] <=> active_sort_column_order' = "ASCENDING"]_vars

\* A click on the column clicked last set desc.
C29_Witness ==
    /\ last.op = "on_tvcol_clicked" /\ last.raised = "none"
    /\ active_params["desc"] /\ active_params["order_by"] = last.args[1]
    /\ active_sort_column_order = "ASCENDING"
    /\ steps >= 2

\* The last handler was an event of the icon view.
IconEvent == last.op \in {"on_key_press_event", "on_button_release_event"}

\* The event is one the claim says toggles: Space with a selected item, or a
\* release inside the checkbox rectangle of an item, with checkboxes shown.
Toggles ==
    /\ has_checkboxes
    /\ \/ last.op = "on_key_press_event" /\ last.args[1] /\ last.args[2] # << >>
       \/ last.op = "on_button_release_event" /\ last.args[1] # << >> /\ last.args[2]

\* The position of the item the event is about among the root rows.
ToggledItem ==
    IF last.op = "on_key_press_event" THEN last.args[2][1][1] + 1 ELSE last.args[1][1] + 1

\* C30 (as stated): in the icon view, a Space press with a selected item or a
\* release inside an item's checkbox rectangle, with checkboxes shown,
\* negates the item's __selected value in the row and in the data source
\* through exactly one update call for that item's id, emits no row-changed
\* and ends with one repaint request; every other key press or release
\* writes nothing to the model or the data source.
C30_IconToggle ==
    [][IconEvent' =>
         IF Toggles'
         THEN /\ last'.raised = "none"
              /\ rows' = rows
              /\ nodes'[rows[ToggledItem']].data[SelectedCol] =
                    PyBool(~ (nodes[rows[ToggledItem']].data[SelectedCol] = 1))
              /\ Cardinality(Called("update")') = 1
              /\ \A k \in Called("update")' :
                    calls'[k] =
                       Call("update",
                            Put(EmptyDict, "__selected",
                                nodes'[rows[ToggledItem']].data[SelectedCol]),
                            << nodes[rows[ToggledItem']].data[id_column_idx] >>)
              /\ Emitted("row-changed")' = {}
              /\ Emitted("queue_draw")' = {Len(signals')}
         ELSE /\ last'.raised = "none"
              /\ calls' = << >>
              /\ signals' = << >>
              /\ nodes' = nodes /\ rows' = rows
              /\ data_source' = data_source]_vars

\* The key of the fallback cache under the model's present properties.
FallbackKey == << image_draw_border, image_max_size >>

\* The calls of this kind made for invisible cells under this key.
FallbackCalls(fkey) ==
    {k \in 1..Len(image_calls) :
        /\ image_calls[k].fn = "transformer" /\ ~ image_calls[k].visible
        /\ << image_calls[k].draw_border, image_calls[k].size >> = fkey}

PlaceholderCalls(size) ==
    {k \in 1..Len(image_calls) :
        image_calls[k].fn = "scale_simple" /\ image_calls[k].size = size}

\* C31: a lookup of a non-empty image value for an invisible cell returns
\* the fallback cached under (image_draw_border, image_max_size) and passes
\* no real value to the transformer: it calls the transformer, with the empty
\* value, only when the key is not cached yet, so that over the model's
\* lifetime at most one such call is made per key; a lookup of an empty value
\* returns the placeholder cached under the size, visible or not, and
\* scale_simple is called at most once per size; cached entries never change.
C31_InvisibleImageFallback ==
    /\ [](/\ \A fkey \in BOOLEAN \X {24, 100} : Cardinality(FallbackCalls(fkey)) <= 1
          /\ \A size \in {24, 100} : Cardinality(PlaceholderCalls(size)) <= 1
          /\ \A k \in 1..Len(image_calls) :
                ~ image_calls[k].visible => image_calls[k].value = NoValue)
    /\ [][last'.op = "get_formatted_value" =>
            /\ \A fkey \in DOMAIN _fallback_images :
                  fkey \in DOMAIN _fallback_images' /\ _fallback_images'[fkey] = _fallback_images[fkey]
            /\ \A size \in DOMAIN _invisible_images :
                  size \in DOMAIN _invisible_images' /\ _invisible_images'[size] = _invisible_images[size]
            /\ (last'.args[1] # NoValue /\ ~ last'.args[2]) =>
                  /\ FallbackKey \in DOMAIN _fallback_images'
                  /\ last'.ret = _fallback_images'[FallbackKey]
                  /\ last'.ret.image = "transformed" /\ last'.ret.value = NoValue
                  /\ last'.ret.size = image_max_size
                  /\ last'.ret.draw_border = image_draw_border
                  /\ Len(image_calls') =
                        Len(image_calls) + (IF FallbackKey \in DOMAIN _fallback_images THEN 0 ELSE 1)
                  /\ \A k \in (Len(image_calls) + 1)..Len(image_calls') :
                        image_calls'[k].fn = "transformer" /\ image_calls'[k].value = NoValue
            /\ last'.args[1] = NoValue =>
                  /\ image_max_size \in DOMAIN _invisible_images'
                  /\ last'.ret = _invisible_images'[image_max_size]
                  /\ last'.ret.image = "NO_IMAGE_PIXBUF" /\ last'.ret.size = image_max_size
                  /\ Len(image_calls') =
                        Len(image_calls)
                          + (IF image_max_size \in DOMAIN _invisible_images THEN 0 ELSE 1)
                  /\ \A k \in (Len(image_calls) + 1)..Len(image_calls') :
                        image_calls'[k].fn = "scale_simple"]_vars

\* The second lookup of a non-empty value for an invisible cell under the
\* same key: the fallback is returned and no second call is made.
C31_Witness ==
    /\ last.op = "get_formatted_value" /\ last.args[1] # NoValue /\ ~ last.args[2]
    /\ steps = 2 /\ image_max_size = 24 /\ ~ image_draw_border
    /\ DOMAIN _fallback_images = {FallbackKey} /\ Len(image_calls) = 1

\* C32 (as stated): set_value on a resident row, whatever the type of the
\* ids of the data source, does not fail and makes an update call whose id
\* list holds exactly the value stored in the id column of that row.
C32_UpdateKeyedByStoredId ==
    [][last'.op = "set_value" =>
          /\ last'.raised = "none"
          /\ Called("update")' # {}
          /\ \A k \in Called("update")' :
                calls'[k].ids = << nodes[NodeAt(Cur, rows, last'.args[1])].data[IdCol] >>]_vars

\* C33 (as stated): while the tree view is shown and a root row has
\* children, Collapse-All is visible exactly when the view's all-expanded
\* flag is set and Expand-All exactly when it is not.
C33_ButtonsFollowAllExpanded ==
    (view = "tree_view" /\ RootHasChildren) =>
        /\ collapse_all_btn <=> all_expanded
        /\ expand_all_btn <=> ~ all_expanded

\* C34 (as stated): while the tree view is shown the model's visible range
\* is undefined, so the value of every resident row is formatted as visible.
C34_TreeViewHasNoVisibleRange ==
    view = "tree_view" =>
        /\ visible_range = << >>
        /\ \A path \in Paths : LookupVisible(Cur, path)

\* The page the query parameters hold after the loads of cs from position i
\* on, starting from page p (0: no page), if every load follows the claim: a
\* load of refresh carries neither page nor parent_id, a root load carries
\* parent_id None and the next page, a load for a parent carries the page
\* unchanged. None if a load does not.
RECURSIVE PagesFollow(_, _, _)
PagesFollow(cs, i, p) ==
    IF i > Len(cs) THEN p
    ELSE IF cs[i].op # "load" THEN PagesFollow(cs, i + 1, p)
    ELSE IF "parent_id" \notin DOMAIN cs[i].params
         THEN IF "page" \in DOMAIN cs[i].params THEN None ELSE PagesFollow(cs, i + 1, 0)
    ELSE IF cs[i].params["parent_id"] = None
         THEN IF Get(cs[i].params, "page", 0) = p + 1 THEN PagesFollow(cs, i + 1, p + 1)
              ELSE None
    ELSE IF Get(cs[i].params, "page", 0) = p THEN PagesFollow(cs, i + 1, p) ELSE None

\* C35 (as stated): the page parameter is absent after a refresh and is then
\* the number of root add_rows calls made in non-hierarchical mode, those
\* that loaded nothing included: every load a handler makes follows the
\* numbering, every root add_rows call in non-hierarchical mode loads with
\* parent_id None and the next page, and every add_rows call for a parent
\* loads with parent_id the id of that row.
C35_PageCountsRootLoads ==
    [][/\ PagesFollow(calls', 1, Get(active_params, "page", 0))
            = Get(active_params', "page", 0)
       /\ "page" \in DOMAIN active_params' => active_params'["page"] >= 1
       /\ last'.op = "refresh" => "page" \notin DOMAIN active_params'
       /\ (last'.op = "add_rows" /\ ~ IsTree(Cur)) =>
             /\ last'.raised = "none"
             /\ Called("load")' # {}
             /\ \A k \in Called("load")' : (\A j \in Called("load")' : k <= j) =>
                   IF last'.args[1] = None
                   THEN /\ calls'[k].params["parent_id"] = None
                        /\ calls'[k].params["page"] = Get(active_params, "page", 0) + 1
                        /\ active_params'["page"] = Get(active_params, "page", 0) + 1
                   ELSE calls'[k].params["parent_id"]
                           = nodes[last'.args[1]].data[id_column_idx]]_vars

\* The shadow canvas a key stands for, computed from the key alone: the size
\* is the key's width and height, the shadow box has the size the image must
\* have (width and height less the offset and twice the border) at border +
\* max(offset, 0), blurred `iterations` times, nothing pasted on it.
CanvasOfKey(k) ==
    [size |-> << k[1], k[2] >>,
     box |-> << k[4] + (IF k[5][1] > 0 THEN k[5][1] ELSE 0),
                k[4] + (IF k[5][2] > 0 THEN k[5][2] ELSE 0),
                k[4] + (IF k[5][1] > 0 THEN k[5][1] ELSE 0)
                   + k[1] - (IF k[5][1] < 0 THEN -k[5][1] ELSE k[5][1]) - 2 * k[4],
                k[4] + (IF k[5][2] > 0 THEN k[5][2] ELSE 0)
                   + k[2] - (IF k[5][2] < 0 THEN -k[5][2] ELSE k[5][2]) - 2 * k[4] >>,
     color |-> k[6], blurred |-> k[3], pasted |-> << >>]

\* The composite a call with these arguments returns on this cache.
CompositeOn(cache, args) ==
    add_drop_shadow([cache |-> cache, blurs |-> << >>], args[1], args[2], args[3], args[4],
                    args[5]).shadow

\* C36: every entry of the drop-shadow cache is the canvas its key stands
\* for, without an image on it; a call never changes or removes an entry; and
\* a call returns on the cache it finds the composite it returns on an empty
\* cache, the image pasted on the canvas of its key.
C36_ShadowCacheSound ==
    /\ [](\A k \in DOMAIN drop_shadows_cache : drop_shadows_cache[k] = CanvasOfKey(k))
    /\ [][last'.op = "add_drop_shadow" =>
            /\ \A k \in DOMAIN drop_shadows_cache :
                  k \in DOMAIN drop_shadows_cache'
                     /\ drop_shadows_cache'[k] = drop_shadows_cache[k]
            /\ CompositeOn(drop_shadows_cache, last'.args) = CompositeOn(EmptyDict, last'.args)
            /\ CompositeOn(drop_shadows_cache', last'.args) = CompositeOn(EmptyDict, last'.args)
            /\ CompositeOn(EmptyDict, last'.args) =
                  [CanvasOfKey(KeyOfCall(last'.args)) EXCEPT !.pasted =
                      << last'.args[1],
                         last'.args[3] - (IF last'.args[4][1] < 0 THEN last'.args[4][1] ELSE 0),
                         last'.args[3] - (IF last'.args[4][2] < 0 THEN last'.args[4][2] ELSE 0) >>]
       ]_vars

\* A call found its key in the cache after a call with another key of the
\* same width and height had added the latest entry.
C36_Witness ==
    /\ last.op = "add_drop_shadow" /\ steps = 3
    /\ last.args[2] = 3 /\ Last(blurs) # KeyOfCall(last.args)
    /\ Cardinality(DOMAIN drop_shadows_cache) = 2
    /\ \E k \in DOMAIN drop_shadows_cache :
          /\ k # KeyOfCall(last.args)
          /\ k[1] = KeyOfCall(last.args)[1] /\ k[2] = KeyOfCall(last.args)[2]
          /\ k[3] = last.args[2]

\* The primitives agree on the row at p (NonePath: the root), which has n
\* children once they are loaded.
NavigationAgrees(p, n) ==
    /\ n > 0 <=> on_iter_children(Cur, p).value # NonePath
    /\ p # NonePath => (on_iter_has_child(Cur, p).value <=> n > 0)
    /\ \A k \in -1..(n + 1) :
          on_iter_nth_child(Cur, p, k).value =
             IF 0 <= k /\ k < n THEN (IF p = NonePath THEN << k >> ELSE p \o << k >>)
             ELSE NonePath
    /\ \A k \in 0..(n - 1) :
          LET child == IF p = NonePath THEN << k >> ELSE p \o << k >>
          IN /\ on_iter_parent(child) = p
             /\ on_iter_next(Cur, child).value =
                   IF k + 1 < n THEN (IF p = NonePath THEN << k + 1 >> ELSE p \o << k + 1 >>)
                   ELSE NonePath

\* C37 (as stated): for the root and for every resident row whose children
\* load without error, has-child, the child count, the first child, the n-th
\* child, the parent and the next sibling agree with each other; the first
\* child of the root is undefined when there are no root rows.
C37_NavigationAgrees ==
    \A p \in Paths \cup {NonePath} :
        on_iter_n_children(Cur, p).s.raised = "none" =>
            NavigationAgrees(p, on_iter_n_children(Cur, p).value)

\* The search the model's query parameters hold: the text, '' when none.
SearchParam ==
    IF "where" \in DOMAIN active_params /\ "search" \in DOMAIN active_params["where"]
    THEN active_params["where"]["search"].param ELSE ""

\* C38 (as stated): the bound model agrees with the active view (icon view:
\* image size 100, decoration, flat iff the model has a flat column; tree
\* view: image size 24, no decoration), and the search entry and the sort
\* column of the view with the model's query parameters.
C38_ModelAgreesWithView ==
    /\ view = "icon_view" =>
          /\ image_max_size = 100 /\ image_draw_border
          /\ Get(active_params, "flat", FALSE) <=> flat_column_idx # None
    /\ view = "tree_view" => image_max_size = 24 /\ ~ image_draw_border
    /\ container.entry_search = SearchParam
    /\ active_sort_column # << >> =>
          Get(active_params, "order_by", "") = active_sort_column[1]

\* C39 (as stated): a scroll event at the bottom makes one add_rows request
\* (at most one load of the data source), and the request completes without
\* error in every reachable state; on an empty root collection in
\* non-hierarchical mode it changes nothing.
C39_ScrollAtBottomAddsRows ==
    [][(last'.op = "on_scrolled" /\ last'.args[2]) =>
         /\ last'.raised = "none"
         /\ Cardinality(Called("load")') <= 1
         /\ (rows = << >> /\ ~ IsTree(Cur)) => rows' = << >>]_vars

\* C40: recomputing the state of the header checkbox never runs the
\* select-all action: no handler but a click on the header checkbox itself
\* asks the data source for all the ids, and a row toggle that succeeds
\* writes to the data source exactly once and refreshes no view.
C40_HeaderUpdateIsSilent ==
    [][/\ last'.op # "on_select_all_column_clicked" =>
               Called("get_all_record_ids")' = {}
       /\ (last'.op = "on_toggle" /\ last'.raised = "none") =>
               /\ Cardinality(Called("update")') = 1
               /\ RefreshLoads' = {}]_vars

\* A row toggle checked the last unchecked row: the header checkbox became
\* active.
C40_Witness ==
    /\ last.op = "on_toggle" /\ last.raised = "none"
    /\ Emitted("row-changed") # {}
    /\ check_btn_toggle_all # << >> /\ check_btn_toggle_all[1].active
    /\ Checked = Under(rows) /\ rows # << >>
====
